---- MODULE Spec2Model ----
(***************************************************************************)
(* Model of the sewer-inspection PDF parser (backend/pdfParser.js) and of  *)
(* the upload handler that stores its result (backend/server.js).          *)
(*                                                                         *)
(* Text is a TLA+ string, i.e. a sequence of characters; positions are     *)
(* 1-based (JavaScript's are 0-based).  Every regular expression of the    *)
(* source is an operator that matches character by character; a failed     *)
(* match (JavaScript's null) is the value NoMatch.  A JavaScript number is *)
(* represented by its canonical decimal numeral ("61.2", "2", "0.5") or by *)
(* "NaN", so that parseInt/parseFloat are real conversions of the matched  *)
(* text and numeric equality is equality of numerals.                      *)
(***************************************************************************)
EXTENDS Integers, Sequences, FiniteSets, TLC

VARIABLES
    text,               \* parsePDF: data.text, the text of the PDF being parsed
    pc,                 \* parsePDF and its caller: the statement reached
    psrData,            \* parsePDF: const psrData
    inspectionReports,  \* parsePDF: const inspectionReports
    result,             \* the value parsePDF returned
    statistics,         \* the value calculateStatistics returned
    returned,           \* every success returned so far, with the text parsed
    opri,               \* getConditionLabel: its argument
    condition,          \* getConditionLabel: the label returned
    uploads,            \* POST /api/upload: the requests and where each one is
    projects,           \* the project rows created by projectOperations.create
    savedData,          \* the ids of the projects whose data dataOperations.save stored
    parsedDataStore,    \* server.js: const parsedDataStore = {}
    window,             \* extractInspectionReportData: a report body, the body
                        \* that follows it and the ratingsSection built from them
    page,               \* parsePDFWithPositioning: a page of pdfData.Pages, its
                        \* textItems, rows, sortedRowKeys and the rawText built
    response            \* the GET routes of server.js: the last request answered
                        \* and the response sent

vars ==
    <<text, pc, psrData, inspectionReports, result, statistics, returned,
      opri, condition, uploads, projects, savedData, parsedDataStore, window, page, response>>

\* a match is a sequence: empty when the expression does not match (null), else
\* one element holding what was captured
NoMatch == <<>>

(***************************************************************************)
(* Characters and strings                                                  *)
(***************************************************************************)
Digits == {"0", "1", "2", "3", "4", "5", "6", "7", "8", "9"}

UpperLetters ==
    {"A", "B", "C", "D", "E", "F", "G", "H", "I", "J", "K", "L", "M",
     "N", "O", "P", "Q", "R", "S", "T", "U", "V", "W", "X", "Y", "Z"}

LowerLetters ==
    {"a", "b", "c", "d", "e", "f", "g", "h", "i", "j", "k", "l", "m",
     "n", "o", "p", "q", "r", "s", "t", "u", "v", "w", "x", "y", "z"}

\* \s
Whitespace == {" ", "\t", "\n", "\r"}

\* \w
WordChars == Digits \cup UpperLetters \cup LowerLetters \cup {"_"}

LowerOf ==
    [c \in UpperLetters |->
        CASE c = "A" -> "a" [] c = "B" -> "b" [] c = "C" -> "c" [] c = "D" -> "d"
          [] c = "E" -> "e" [] c = "F" -> "f" [] c = "G" -> "g" [] c = "H" -> "h"
          [] c = "I" -> "i" [] c = "J" -> "j" [] c = "K" -> "k" [] c = "L" -> "l"
          [] c = "M" -> "m" [] c = "N" -> "n" [] c = "O" -> "o" [] c = "P" -> "p"
          [] c = "Q" -> "q" [] c = "R" -> "r" [] c = "S" -> "s" [] c = "T" -> "t"
          [] c = "U" -> "u" [] c = "V" -> "v" [] c = "W" -> "w" [] c = "X" -> "x"
          [] c = "Y" -> "y" [] c = "Z" -> "z"]

Min(S) == CHOOSE x \in S : \A y \in S : x <= y

Max(S) == CHOOSE x \in S : \A y \in S : y <= x

\* s.charAt(i-1)
At(s, i) == SubSeq(s, i, i)

\* the character at position i exists and lies in the class cls
InClass(s, i, cls) == i >= 1 /\ i <= Len(s) /\ At(s, i) \in cls

\* the literal lit occurs in s at position i
StartsAt(s, i, lit) ==
    i >= 1 /\ i + Len(lit) - 1 <= Len(s) /\ SubSeq(s, i, i + Len(lit) - 1) = lit

\* s.substring(i-1)
From(s, i) == SubSeq(s, i, Len(s))

\* the flag i of a regular expression: both sides are compared in lower case
RECURSIVE ToLower(_)
ToLower(s) ==
    IF Len(s) = 0 THEN ""
    ELSE IF Len(s) = 1 THEN (IF s \in UpperLetters THEN LowerOf[s] ELSE s)
    ELSE LET h == Len(s) \div 2
         IN  ToLower(SubSeq(s, 1, h)) \o ToLower(SubSeq(s, h + 1, Len(s)))

\* s.indexOf(lit, from-1) + 1: the first position >= from where lit occurs, else 0
IndexFrom(s, lit, from) ==
    LET ps == {i \in from..(Len(s) - Len(lit) + 1) : StartsAt(s, i, lit)}
    IN  IF ps = {} THEN 0 ELSE Min(ps)

\* s.includes(lit)
Includes(s, lit) == IndexFrom(s, lit, 1) # 0

\* the position after the longest run of characters of cls that starts at i
RECURSIVE Span(_, _, _)
Span(s, i, cls) == IF InClass(s, i, cls) THEN Span(s, i + 1, cls) ELSE i

\* s.split('\n')
RECURSIVE SplitLines(_)
SplitLines(s) ==
    LET nl == IndexFrom(s, "\n", 1)
    IN  IF nl = 0 THEN <<s>>
        ELSE <<SubSeq(s, 1, nl - 1)>> \o SplitLines(From(s, nl + 1))

\* s.trim()
RECURSIVE TrimLeft(_)
TrimLeft(s) == IF s # "" /\ Head(s) \in Whitespace THEN TrimLeft(Tail(s)) ELSE s

RECURSIVE TrimRight(_)
TrimRight(s) ==
    IF s # "" /\ At(s, Len(s)) \in Whitespace
    THEN TrimRight(SubSeq(s, 1, Len(s) - 1)) ELSE s

Trim(s) == TrimRight(TrimLeft(s))

(***************************************************************************)
(* Numbers: parseInt and parseFloat                                        *)
(***************************************************************************)
RECURSIVE StripLeadingZeros(_)
StripLeadingZeros(ds) ==
    IF Len(ds) > 1 /\ Head(ds) = "0" THEN StripLeadingZeros(Tail(ds)) ELSE ds

RECURSIVE StripTrailingZeros(_)
StripTrailingZeros(ds) ==
    IF ds # "" /\ At(ds, Len(ds)) = "0"
    THEN StripTrailingZeros(SubSeq(ds, 1, Len(ds) - 1)) ELSE ds

\* the numeral of the number with integer digits ip and fraction digits fp
Numeral(ip, fp) ==
    LET i == StripLeadingZeros(IF ip = "" THEN "0" ELSE ip)
        f == StripTrailingZeros(fp)
    IN  IF f = "" THEN i ELSE i \o "." \o f

\* parseInt(s) for s without sign or leading blanks: the leading digits
ParseInt(s) ==
    LET e == Span(s, 1, Digits)
    IN  IF e = 1 THEN "NaN" ELSE Numeral(SubSeq(s, 1, e - 1), "")

\* parseFloat(s) for s without sign, exponent or leading blanks: the longest
\* prefix digits [. digits] that holds a digit
ParseFloat(s) ==
    LET e1 == Span(s, 1, Digits)
        ip == SubSeq(s, 1, e1 - 1)
        e2 == IF StartsAt(s, e1, ".") THEN Span(s, e1 + 1, Digits) ELSE e1
        fp == IF e2 > e1 THEN SubSeq(s, e1 + 1, e2 - 1) ELSE ""
    IN  IF ip = "" /\ fp = "" THEN "NaN" ELSE Numeral(ip, fp)

IntDigits(n) == LET d == IndexFrom(n, ".", 1) IN IF d = 0 THEN n ELSE SubSeq(n, 1, d - 1)

FracDigits(n) == LET d == IndexFrom(n, ".", 1) IN IF d = 0 THEN "" ELSE From(n, d + 1)

DigitValue(c) ==
    CASE c = "0" -> 0 [] c = "1" -> 1 [] c = "2" -> 2 [] c = "3" -> 3 [] c = "4" -> 4
      [] c = "5" -> 5 [] c = "6" -> 6 [] c = "7" -> 7 [] c = "8" -> 8 [] c = "9" -> 9

\* digit strings compared from the left, the shorter padded with zeros
RECURSIVE DigitsLess(_, _)
DigitsLess(a, b) ==
    IF a = "" /\ b = "" THEN FALSE
    ELSE LET x == IF a = "" THEN 0 ELSE DigitValue(Head(a))
             y == IF b = "" THEN 0 ELSE DigitValue(Head(b))
         IN  IF x # y THEN x < y
             ELSE DigitsLess(IF a = "" THEN "" ELSE Tail(a),
                             IF b = "" THEN "" ELSE Tail(b))

\* a < b on numbers; every comparison with NaN is false
NumLess(a, b) ==
    /\ a # "NaN"
    /\ b # "NaN"
    /\ LET ia == IntDigits(a)
           ib == IntDigits(b)
       IN  IF Len(ia) # Len(ib) THEN Len(ia) < Len(ib)
           ELSE IF ia # ib THEN DigitsLess(ia, ib)
           ELSE DigitsLess(FracDigits(a), FracDigits(b))

\* a <= b on numbers
NumLeq(a, b) == a # "NaN" /\ b # "NaN" /\ (a = b \/ NumLess(a, b))

(***************************************************************************)
(* extractSectionProfileData                                               *)
(***************************************************************************)
\* /\d{1,2}\/\d{1,2}\/\d{4}/ at position i: the position after the match, else 0.
\* Each \d{1,2} must be followed by "/", so at most one of its lengths can match.
DayOrMonthAt(s, i) ==
    IF InClass(s, i, Digits) /\ InClass(s, i + 1, Digits) /\ StartsAt(s, i + 2, "/")
    THEN i + 3
    ELSE IF InClass(s, i, Digits) /\ StartsAt(s, i + 1, "/") THEN i + 2 ELSE 0

DateAt(s, i) ==
    LET a == DayOrMonthAt(s, i)
        b == IF a = 0 THEN 0 ELSE DayOrMonthAt(s, a)
    IN  IF b # 0 /\ \A k \in 0..3 : InClass(s, b + k, Digits) THEN b + 4 ELSE 0

\* -\d{2}-\d{2}-\d{3} at position i: the position after the match, else 0
ManholeTailAt(s, i) ==
    IF /\ StartsAt(s, i, "-") /\ InClass(s, i + 1, Digits) /\ InClass(s, i + 2, Digits)
       /\ StartsAt(s, i + 3, "-") /\ InClass(s, i + 4, Digits) /\ InClass(s, i + 5, Digits)
       /\ StartsAt(s, i + 6, "-") /\ \A k \in 7..9 : InClass(s, i + k, Digits)
    THEN i + 10 ELSE 0

\* /\d{2,3}-\d{2}-\d{2}-\d{3}/ at position i (three leading digits tried first)
ManholeCoreAt(s, i) ==
    IF \A k \in 0..2 : InClass(s, i + k, Digits)
    THEN ManholeTailAt(s, i + 3)
    ELSE IF InClass(s, i, Digits) /\ InClass(s, i + 1, Digits)
         THEN ManholeTailAt(s, i + 2) ELSE 0

\* mhPattern /(\d{2,3}-\d{2}-\d{2}-\d{3}[A-Z]?)/ at position i
mhPatternAt(s, i) ==
    LET e == ManholeCoreAt(s, i)
    IN  IF e = 0 THEN 0 ELSE IF InClass(s, e, UpperLetters) THEN e + 1 ELSE e

\* the first match of mhPattern at or after position from: <<start, end>>, else <<0, 0>>
NextManhole(s, from) ==
    LET ps == {i \in from..Len(s) : mhPatternAt(s, i) # 0}
    IN  IF ps = {} THEN <<0, 0>> ELSE <<Min(ps), mhPatternAt(s, Min(ps))>>

hasHeaderText(line) ==
    \/ Includes(line, "No.") \/ Includes(line, "PSR")
    \/ Includes(line, "Upstream MH") \/ Includes(line, "Downstream MH")
    \/ Includes(line, "Material") \/ Includes(line, "Surveyed")

hasMHPattern(line) == \E i \in 1..Len(line) : ManholeCoreAt(line, i) # 0

hasDate(line) == \E i \in 1..Len(line) : DateAt(line, i) # 0

\* the three "continue" statements at the head of the loop over the lines
SkippedLine(line) ==
    \/ Trim(line) = ""
    \/ hasHeaderText(line) /\ ~hasMHPattern(line) /\ ~hasDate(line)
    \/ Includes(line, "Circular =") \/ Includes(line, "Total Length (")

\* the PSR is always the last 3 digits
SplitDigitsLastThree(allDigits) ==
    IF Len(allDigits) <= 3 THEN [no |-> allDigits, psr |-> ""]
    ELSE [no |-> SubSeq(allDigits, 1, Len(allDigits) - 3),
          psr |-> From(allDigits, Len(allDigits) - 2)]

\* the split of the digits before the first manhole ID into No. and PSR
SplitDigits(allDigits) ==
    LET n == Len(allDigits)
    IN  IF n <= 3 THEN [no |-> allDigits, psr |-> ""]   \* psr = null
        ELSE IF n = 4 THEN [no |-> SubSeq(allDigits, 1, 1), psr |-> SubSeq(allDigits, 2, 4)]
        ELSE IF n = 5 THEN [no |-> SubSeq(allDigits, 1, 2), psr |-> SubSeq(allDigits, 3, 5)]
        ELSE IF n = 6 THEN [no |-> SubSeq(allDigits, 1, 3), psr |-> SubSeq(allDigits, 4, 6)]
        ELSE IF n = 7 THEN [no |-> SubSeq(allDigits, 1, n - 4), psr |-> From(allDigits, n - 3)]
        ELSE [no |-> SubSeq(allDigits, 1, n - 3), psr |-> From(allDigits, n - 2)]

\* restMatch: /^(\d{1,2}\/\d{1,2}\/\d{4})([A-Z]{2,4})([\d.]+)([\d.]+)/ on rest.
\* [A-Z]{2,4} must be followed by a digit or dot, so the run of letters has 2..4
\* letters; the greedy third group leaves the fourth exactly one character.
RestMatch(rest) ==
    LET d == DateAt(rest, 1)
        m == Span(rest, d, UpperLetters)
        e == Span(rest, m, Digits \cup {"."})
    IN  IF d = 0 \/ m - d < 2 \/ m - d > 4 \/ e - m < 2 THEN NoMatch
        ELSE <<[date |-> SubSeq(rest, 1, d - 1),
                material |-> SubSeq(rest, d, m - 1),
                total |-> SubSeq(rest, m, e - 2),
                surveyed |-> SubSeq(rest, e - 1, e - 1)]>>

\* the body of the loop for one line that has two manhole IDs: the entry pushed,
\* or NoMatch
AnchorEntry(line) ==
    LET Entry(upstreamMH, downstreamMH, sp, rm) ==
            IF rm = NoMatch \/ sp.psr = "" THEN NoMatch
            ELSE <<[no |-> sp.no, psr |-> sp.psr,
                    upstreamMH |-> upstreamMH, downstreamMH |-> downstreamMH,
                    date |-> rm[1].date, material |-> rm[1].material,
                    totalLength |-> ParseFloat(rm[1].total),
                    lengthSurveyed |-> ParseFloat(rm[1].surveyed)]>>
        Split(upstreamMH, downstreamMH, beforeMH) ==
            IF beforeMH = "" \/ Span(beforeMH, 1, Digits) # Len(beforeMH) + 1
            THEN NoMatch
            ELSE Entry(upstreamMH, downstreamMH, SplitDigits(beforeMH),
                       RestMatch(From(line, IndexFrom(line, downstreamMH, 1)
                                            + Len(downstreamMH))))
        Anchors(upstreamMH, downstreamMH) ==
            Split(upstreamMH, downstreamMH,
                  SubSeq(line, 1, IndexFrom(line, upstreamMH, 1) - 1))
        Manholes(m1, m2) ==
            IF m2[1] = 0 THEN NoMatch
            ELSE Anchors(SubSeq(line, m1[1], m1[2] - 1), SubSeq(line, m2[1], m2[2] - 1))
        Second(m1) ==
            Manholes(m1, IF m1[1] = 0 THEN <<0, 0>> ELSE NextManhole(line, m1[2]))
    IN  Second(NextManhole(line, 1))

\* the first loop of extractSectionProfileData: the entries pushed, line by line
RECURSIVE AnchorEntries(_)
AnchorEntries(lines) ==
    IF lines = <<>> THEN <<>>
    ELSE LET line == Head(lines)
             e == IF SkippedLine(line) THEN NoMatch ELSE AnchorEntry(line)
         IN  e \o AnchorEntries(Tail(lines))

\* ^ under the flag m: the start of the text or of a line
LineStart(s, p) == p = 1 \/ InClass(s, p - 1, {"\n", "\r"})

\* spacedPattern at position p:
\* /^\s*(\d+)\s+(\d+)\s+([\d\-]+)\s+([\d\-A-Z]+)\s+(\d{1,2}\/\d{1,2}\/\d{4})\s+([A-Z]+)\s+([\d.]+)\s+([\d.]+)/gm
\* Every group is followed by \s+ and holds no white space, so each group is the
\* longest run of its class.  The match is <<entry, position after the match>>.
SpacedMatchAt(s, p) ==
    LET b1 == Span(s, p, Whitespace)
        e1 == Span(s, b1, Digits)
        b2 == Span(s, e1, Whitespace)
        e2 == Span(s, b2, Digits)
        b3 == Span(s, e2, Whitespace)
        e3 == Span(s, b3, Digits \cup {"-"})
        b4 == Span(s, e3, Whitespace)
        e4 == Span(s, b4, Digits \cup {"-"} \cup UpperLetters)
        b5 == Span(s, e4, Whitespace)
        e5 == DateAt(s, b5)
        b6 == Span(s, e5, Whitespace)
        e6 == Span(s, b6, UpperLetters)
        b7 == Span(s, e6, Whitespace)
        e7 == Span(s, b7, Digits \cup {"."})
        b8 == Span(s, e7, Whitespace)
        e8 == Span(s, b8, Digits \cup {"."})
    IN  IF /\ LineStart(s, p)
           /\ e1 > b1 /\ b2 > e1 /\ e2 > b2 /\ b3 > e2 /\ e3 > b3 /\ b4 > e3
           /\ e4 > b4 /\ b5 > e4 /\ e5 # 0 /\ b6 > e5 /\ e6 > b6 /\ b7 > e6
           /\ e7 > b7 /\ b8 > e7 /\ e8 > b8
        THEN <<[no |-> SubSeq(s, b1, e1 - 1), psr |-> SubSeq(s, b2, e2 - 1),
                upstreamMH |-> SubSeq(s, b3, e3 - 1),
                downstreamMH |-> SubSeq(s, b4, e4 - 1),
                date |-> SubSeq(s, b5, e5 - 1), material |-> SubSeq(s, b6, e6 - 1),
                totalLength |-> ParseFloat(SubSeq(s, b7, e7 - 1)),
                lengthSurveyed |-> ParseFloat(SubSeq(s, b8, e8 - 1))], e8>>
        ELSE NoMatch

\* while ((match = spacedPattern.exec(section)) !== null): the entries pushed,
\* the search resuming after each match (lastIndex)
RECURSIVE SpacedEntries(_, _)
SpacedEntries(section, lastIndex) ==
    LET Push(m) == <<m[1]>> \o SpacedEntries(section, m[2])
        First(ps) ==
            IF ps = {} THEN <<>> ELSE Push(SpacedMatchAt(section, Min(ps)))
    IN  First({p \in lastIndex..Len(section) : SpacedMatchAt(section, p) # NoMatch})

\* fullSectionMatch: /Section Profile[\s\S]*?(?=Inspection report|$)/i
fullSectionMatch(t) ==
    LET lt == ToLower(t)
        st == IndexFrom(lt, "section profile", 1)
        en == IndexFrom(lt, "inspection report", st + Len("section profile"))
    IN  IF st = 0 THEN NoMatch
        ELSE <<SubSeq(t, st, IF en = 0 THEN Len(t) ELSE en - 1)>>

\* psrData when the loop over the sections has ended: the anchored entries, and
\* the spaced ones only if (matchCount === 0)
ExtractedEntries(t) ==
    LET Fallback(section, anchored) ==
            IF Len(anchored) = 0 THEN SpacedEntries(section, 1) ELSE anchored
        Loop(fm) ==
            IF fm = NoMatch THEN <<>>
            ELSE Fallback(fm[1], AnchorEntries(SplitLines(fm[1])))
    IN  Loop(fullSectionMatch(t))

\* const key = `${entry.psr}-${entry.upstreamMH}-${entry.downstreamMH}`
DedupKey(entry) == entry.psr \o "-" \o entry.upstreamMH \o "-" \o entry.downstreamMH

\* no deduplication loop
DeduplicateNothing(entries, seen) == entries

\* the deduplication loop: an entry is kept unless its key has been seen
RECURSIVE Deduplicate(_, _)
Deduplicate(entries, seen) ==
    IF entries = <<>> THEN <<>>
    ELSE LET entry == Head(entries)
             key == DedupKey(entry)
         IN  IF key \notin seen
             THEN <<entry>> \o Deduplicate(Tail(entries), seen \cup {key})
             ELSE Deduplicate(Tail(entries), seen)

\* the keys of the entries that earlier calls returned
SeenInEarlierCalls ==
    UNION {{DedupKey(returned[i].sectionProfile[k]) :
               k \in 1..Len(returned[i].sectionProfile)} : i \in 1..Len(returned)}

\* const seen = new Set(): made anew in every call
NewSet == {}

extractSectionProfileData(t) == Deduplicate(ExtractedEntries(t), NewSet)

(***************************************************************************)
(* extractInspectionReportData: the building blocks of its expressions     *)
(***************************************************************************)
DigitsOrDot == Digits \cup {"."}

WordOrDash == WordChars \cup {"-"}

\* the position after the longest run of characters other than "\n" ([^\n]*)
RECURSIVE SpanLine(_, _)
SpanLine(s, i) ==
    IF i <= Len(s) /\ At(s, i) # "\n" THEN SpanLine(s, i + 1) ELSE i

\* the leftmost match of an expression: string.match(re) without the flag g
FirstMatch(s, MatchAt(_, _)) ==
    LET ps == {p \in 1..Len(s) : MatchAt(s, p) # NoMatch}
    IN  IF ps = {} THEN NoMatch ELSE MatchAt(s, Min(ps))

\* text.split(/Inspection report/i): lt is the text in lower case
RECURSIVE SplitReports(_, _)
SplitReports(t, lt) ==
    LET k == IndexFrom(lt, "inspection report", 1)
        n == Len("inspection report")
    IN  IF k = 0 THEN <<t>>
        ELSE <<SubSeq(t, 1, k - 1)>> \o SplitReports(From(t, k + n), From(lt, k + n))

\* /label\s*(cls+)/ at p: the longest run of cls after the label and white space
LabelRunAt(s, p, label, cls) ==
    LET a == Span(s, p + Len(label), Whitespace)
    IN  IF StartsAt(s, p, label) /\ InClass(s, a, cls)
        THEN <<SubSeq(s, a, Span(s, a, cls) - 1)>> ELSE NoMatch

LabelRun(s, label, cls) ==
    FirstMatch(s, LAMBDA t, p : LabelRunAt(t, p, label, cls))

\* /label\s*([^\n]+)/ at p: \s* gives back white space until a character other
\* than "\n" follows; the capture runs to the end of that line
LabelLineAt(s, p, label) ==
    LET a0 == p + Len(label)
        as == {a \in a0..Span(s, a0, Whitespace) : a <= Len(s) /\ At(s, a) # "\n"}
    IN  IF StartsAt(s, p, label) /\ as # {}
        THEN <<SubSeq(s, Max(as), SpanLine(s, Max(as)) - 1)>> ELSE NoMatch

LabelLine(s, label) == FirstMatch(s, LAMBDA t, p : LabelLineAt(t, p, label))

\* (?:\s+T1|\s+T2|$) at e, for the terminators T in terms: $ is the end of the text
TerminatorAt(s, e, terms) ==
    \/ e = Len(s) + 1
    \/ \E t \in terms : Span(s, e, Whitespace) > e /\ StartsAt(s, Span(s, e, Whitespace), t)

\* the position after the longest run, from a, of characters of cls (inside TRUE)
\* or of characters other than those of cls (inside FALSE)
RECURSIVE SpanOf(_, _, _, _)
SpanOf(s, i, cls, inside) ==
    IF i <= Len(s) /\ ((At(s, i) \in cls) = inside)
    THEN SpanOf(s, i + 1, cls, inside) ELSE i

\* /label\s*(C+?)(?:\s+T1|\s+T2|$)/ at p, C the class (cls, inside): \s* is greedy
\* (the latest capture start is tried first), the capture lazy (its shortest
\* length that a terminator follows wins)
LazyFieldAt(s, p, label, cls, inside, terms) ==
    LET a0 == p + Len(label)
        Ends(a) == {e \in (a + 1)..SpanOf(s, a, cls, inside) : TerminatorAt(s, e, terms)}
        as == {a \in a0..Span(s, a0, Whitespace) : Ends(a) # {}}
    IN  IF StartsAt(s, p, label) /\ as # {}
        THEN <<SubSeq(s, Max(as), Min(Ends(Max(as))) - 1)>> ELSE NoMatch

LazyField(s, label, cls, inside, terms) ==
    FirstMatch(s, LAMBDA t, p : LazyFieldAt(t, p, label, cls, inside, terms))

\* /label\s*([\d.]+)\s*['"]/ at p
QuotedLengthAt(s, p, label) ==
    LET a == Span(s, p + Len(label), Whitespace)
        e == Span(s, a, DigitsOrDot)
    IN  IF StartsAt(s, p, label) /\ e > a /\ InClass(s, Span(s, e, Whitespace), {"'", "\""})
        THEN <<SubSeq(s, a, e - 1)>> ELSE NoMatch

QuotedLength(s, label) == FirstMatch(s, LAMBDA t, p : QuotedLengthAt(t, p, label))

\* /\.?:?\s*(\d+)/ at i: the tail of the PSR expressions
RefTailAt(s, i) ==
    LET d == IF StartsAt(s, i, ".") THEN i + 1 ELSE i
        c == IF StartsAt(s, d, ":") THEN d + 1 ELSE d
        a == Span(s, c, Whitespace)
    IN  IF InClass(s, a, Digits) THEN <<SubSeq(s, a, Span(s, a, Digits) - 1)>> ELSE NoMatch

\* /Pipe\s+Segment\s+Ref\.?:?\s*(\d+)/i at p of the text in lower case
PipeSegmentRefAt(lt, p) ==
    LET w1 == Span(lt, p + 4, Whitespace)
        w2 == Span(lt, w1 + 7, Whitespace)
    IN  IF /\ StartsAt(lt, p, "pipe") /\ w1 > p + 4 /\ StartsAt(lt, w1, "segment")
           /\ w2 > w1 + 7 /\ StartsAt(lt, w2, "ref")
        THEN RefTailAt(lt, w2 + 3) ELSE NoMatch

\* /PSR\s*:?\s*(\d+)/i at p of the text in lower case
PsrLabelAt(lt, p) ==
    LET w == Span(lt, p + 3, Whitespace)
        c == IF StartsAt(lt, w, ":") THEN w + 1 ELSE w
        a == Span(lt, c, Whitespace)
    IN  IF StartsAt(lt, p, "psr") /\ InClass(lt, a, Digits)
        THEN <<SubSeq(lt, a, Span(lt, a, Digits) - 1)>> ELSE NoMatch

\* /Ref\.?:?\s*(\d+)/ at p (no flag i)
RefLabelAt(s, p) == IF StartsAt(s, p, "Ref") THEN RefTailAt(s, p + 3) ELSE NoMatch

\* /Segment\s+(?:Reference|Ref)\.?:?\s*(\d+)/i at p of the text in lower case
SegmentReferenceAt(lt, p) ==
    LET w == Span(lt, p + 7, Whitespace)
    IN  IF ~(StartsAt(lt, p, "segment") /\ w > p + 7) THEN NoMatch
        ELSE IF StartsAt(lt, w, "reference") /\ RefTailAt(lt, w + 9) # NoMatch
             THEN RefTailAt(lt, w + 9)
        ELSE IF StartsAt(lt, w, "ref") THEN RefTailAt(lt, w + 3) ELSE NoMatch

\* the label PSR is tried before the label Pipe Segment Ref.
psrMatchPsrFirst(section) ==
    LET lt == ToLower(section)
        m1 == FirstMatch(lt, PsrLabelAt)
        m2 == FirstMatch(lt, PipeSegmentRefAt)
        m3 == FirstMatch(section, RefLabelAt)
    IN  IF m1 # NoMatch THEN m1
        ELSE IF m2 # NoMatch THEN m2
        ELSE IF m3 # NoMatch THEN m3
        ELSE FirstMatch(lt, SegmentReferenceAt)

\* psrMatch: the four expressions joined by ||, the first that matches anywhere
psrMatch(section) ==
    LET lt == ToLower(section)
        m1 == FirstMatch(lt, PipeSegmentRefAt)
        m2 == FirstMatch(lt, PsrLabelAt)
        m3 == FirstMatch(section, RefLabelAt)
    IN  IF m1 # NoMatch THEN m1
        ELSE IF m2 # NoMatch THEN m2
        ELSE IF m3 # NoMatch THEN m3
        ELSE FirstMatch(lt, SegmentReferenceAt)

\* /Date:\s*(\d{1,2}\/\d{1,2}\/\d{4})/ at p
DateLabelAt(s, p) ==
    LET a == Span(s, p + 5, Whitespace)
    IN  IF StartsAt(s, p, "Date:") /\ DateAt(s, a) # 0
        THEN <<SubSeq(s, a, DateAt(s, a) - 1)>> ELSE NoMatch

\* /(\d{1,2}\/\d{1,2}\/\d{4})\s+Cole Swenson/ at p
DateBeforeNameAt(s, p) ==
    LET e == DateAt(s, p)
    IN  IF e # 0 /\ Span(s, e, Whitespace) > e /\ StartsAt(s, Span(s, e, Whitespace), "Cole Swenson")
        THEN <<SubSeq(s, p, e - 1)>> ELSE NoMatch

dateMatch(section) ==
    LET m == FirstMatch(section, DateLabelAt)
    IN  IF m # NoMatch THEN m ELSE FirstMatch(section, DateBeforeNameAt)

\* /LABEL\s*:?\s*[\r\n]+\s*(cls+)/i at p of the ratings window in lower case:
\* between the label and the value stands white space, with at most one colon,
\* and a line break after the colon (after the label when there is no colon)
LabeledRatingAt(lt, p, label, cls) ==
    LET i0 == p + Len(label)
        w1 == Span(lt, i0, Whitespace)
        colon == StartsAt(lt, w1, ":")
        g0 == IF colon THEN w1 + 1 ELSE i0
        a == IF colon THEN Span(lt, w1 + 1, Whitespace) ELSE w1
    IN  IF /\ StartsAt(lt, p, label)
           /\ \E k \in g0..(a - 1) : At(lt, k) \in {"\r", "\n"}
           /\ InClass(lt, a, cls)
        THEN <<SubSeq(lt, a, Span(lt, a, cls) - 1)>> ELSE NoMatch

LabeledRating(lt, label, cls) ==
    FirstMatch(lt, LAMBDA t, p : LabeledRatingAt(t, p, label, cls))

\* /QOR[\r\n]+\s*(\d+)/i at p of the ratings window in lower case
BareQorAt(lt, p) ==
    LET a == Span(lt, p + 3, Whitespace)
    IN  IF StartsAt(lt, p, "qor") /\ InClass(lt, p + 3, {"\r", "\n"}) /\ InClass(lt, a, Digits)
        THEN <<SubSeq(lt, a, Span(lt, a, Digits) - 1)>> ELSE NoMatch

\* concatMatch: /QSRQMR[^\n]*[\r\n]+\s*([\d.]+)/i at p: [^\n]* is greedy, so the
\* latest line break after which a value follows is taken
ConcatAt(lt, p) ==
    LET i0 == p + Len("qsrqmr")
        ns == {n \in i0..SpanLine(lt, i0) :
                  /\ InClass(lt, n, {"\r", "\n"})
                  /\ InClass(lt, Span(lt, n, Whitespace), DigitsOrDot)}
    IN  IF StartsAt(lt, p, "qsrqmr") /\ ns # {}
        THEN LET a == Span(lt, Max(ns), Whitespace)
             IN  <<SubSeq(lt, a, Span(lt, a, DigitsOrDot) - 1)>>
        ELSE NoMatch

\* decimalPart.match(/\d\.\d/g): the tokens digit-dot-digit from the left,
\* none overlapping another (an empty sequence where match returns null)
RECURSIVE Decimals(_)
Decimals(d) ==
    LET ps == {i \in 1..(Len(d) - 2) :
                  InClass(d, i, Digits) /\ StartsAt(d, i + 1, ".") /\ InClass(d, i + 2, Digits)}
    IN  IF ps = {} THEN <<>>
        ELSE <<SubSeq(d, Min(ps), Min(ps) + 2)>> \o Decimals(From(d, Min(ps) + 3))

\* a property of the report object that is set only when its expression matched
Field(name, m, Convert(_)) == IF m = NoMatch THEN <<>> ELSE name :> Convert(m[1])

Same(x) == x

\* the decimals taken in the order of the labels: SPR, MPR, OPR, SPRI, MPRI, OPRI
ConcatenatedRatingsLabelOrder(qsr, qmr, decimals) ==
    ("qsr" :> ParseInt(qsr)) @@ ("qmr" :> ParseInt(qmr))
    @@ ("spr" :> ParseFloat(decimals[1])) @@ ("mpr" :> ParseFloat(decimals[2]))
    @@ ("opr" :> ParseFloat(decimals[3])) @@ ("spri" :> ParseFloat(decimals[4]))
    @@ ("mpri" :> ParseFloat(decimals[5])) @@ ("opri" :> ParseFloat(decimals[6]))

\* the assignments made when the concatenated format is used: the decimals are
\* taken in the order SPR, MPR, SPRI, MPRI, OPRI, OPR
ConcatenatedRatings(qsr, qmr, decimals) ==
    ("qsr" :> ParseInt(qsr)) @@ ("qmr" :> ParseInt(qmr))
    @@ ("spr" :> ParseFloat(decimals[1])) @@ ("mpr" :> ParseFloat(decimals[2]))
    @@ ("spri" :> ParseFloat(decimals[3])) @@ ("mpri" :> ParseFloat(decimals[4]))
    @@ ("opri" :> ParseFloat(decimals[5])) @@ ("opr" :> ParseFloat(decimals[6]))

\* the ratings of one report, read in its ratings window
Ratings(ratingsSection) ==
    LET lt == ToLower(ratingsSection)
        qsrMatch == LabeledRating(lt, "qsr", Digits)
        concatMatch == IF qsrMatch = NoMatch THEN FirstMatch(lt, ConcatAt) ELSE NoMatch
        numbersLine == concatMatch[1]
        qsr == SubSeq(numbersLine, 1, Min({4, Len(numbersLine)}))
        qmr == SubSeq(numbersLine, 5, Min({8, Len(numbersLine)}))
        decimals == Decimals(From(numbersLine, 9))
        usedConcatenatedFormat ==
            concatMatch # NoMatch /\ qsr # "" /\ qmr # "" /\ Len(decimals) >= 6
        qorMatch == IF qsrMatch = NoMatch THEN FirstMatch(lt, BareQorAt)
                    ELSE LabeledRating(lt, "qor", Digits)
    IN  IF usedConcatenatedFormat
        THEN ConcatenatedRatings(qsr, qmr, decimals) @@ Field("qor", qorMatch, ParseInt)
        ELSE Field("qsr", qsrMatch, ParseInt)
             @@ Field("qmr", LabeledRating(lt, "qmr", Digits), ParseInt)
             @@ Field("qor", qorMatch, ParseInt)
             @@ Field("spr", LabeledRating(lt, "spr", DigitsOrDot), ParseFloat)
             @@ Field("mpr", LabeledRating(lt, "mpr", DigitsOrDot), ParseFloat)
             @@ Field("opr", LabeledRating(lt, "opr", DigitsOrDot), ParseFloat)
             @@ Field("spri", LabeledRating(lt, "spri", DigitsOrDot), ParseFloat)
             @@ Field("mpri", LabeledRating(lt, "mpri", DigitsOrDot), ParseFloat)
             @@ Field("opri", LabeledRating(lt, "opri", DigitsOrDot), ParseFloat)

\* /\d{2}:\d{2}:\d{2}/ at position i
CounterAt(s, i) ==
    /\ InClass(s, i, Digits) /\ InClass(s, i + 1, Digits) /\ StartsAt(s, i + 2, ":")
    /\ InClass(s, i + 3, Digits) /\ InClass(s, i + 4, Digits) /\ StartsAt(s, i + 5, ":")
    /\ InClass(s, i + 6, Digits) /\ InClass(s, i + 7, Digits)

\* obsPattern at p: /([\d.]+)\s+([A-Z]+)\s+([^\n]+?)\s+(\d{2}:\d{2}:\d{2})/g.
\* The second \s+ is greedy (the latest start of the text is tried first) and
\* the text lazy.  The match is <<observation, position after the match>>.
ObservationAt(s, p) ==
    LET e1 == Span(s, p, DigitsOrDot)
        w1 == Span(s, e1, Whitespace)
        e2 == Span(s, w1, UpperLetters)
        w2 == Span(s, e2, Whitespace)
        Ends(a) == {e \in (a + 1)..SpanLine(s, a) :
                       Span(s, e, Whitespace) > e /\ CounterAt(s, Span(s, e, Whitespace))}
        as == {a \in (e2 + 1)..w2 : Ends(a) # {}}
    IN  IF e1 > p /\ w1 > e1 /\ e2 > w1 /\ as # {}
        THEN LET a == Max(as)
                 e == Min(Ends(a))
                 c == Span(s, e, Whitespace)
             IN  <<[distance |-> ParseFloat(SubSeq(s, p, e1 - 1)),
                    code |-> SubSeq(s, w1, e2 - 1),
                    observation |-> Trim(SubSeq(s, a, e - 1)),
                    counter |-> SubSeq(s, c, c + 7)], c + 8>>
        ELSE NoMatch

\* while ((obsMatch = obsPattern.exec(section)) !== null)
RECURSIVE Observations(_, _)
Observations(section, lastIndex) ==
    LET ps == {p \in lastIndex..Len(section) : ObservationAt(section, p) # NoMatch}
    IN  IF ps = {} THEN <<>>
        ELSE LET m == ObservationAt(section, Min(ps))
             IN  <<m[1]>> \o Observations(section, m[2])

(***************************************************************************)
(* extractInspectionReportData                                             *)
(***************************************************************************)
\* let endIdx = 2000
DefaultLookahead == 2000

\* endIdx = pageMarkerIdx + 50
PageMarkerSlack == 50

\* the window ends at the page marker itself
RatingsSectionToPageMarker(section, hasNext, nextSection) ==
    IF ~hasNext THEN section
    ELSE LET ln == ToLower(nextSection)
             sectionPicturesIdx == IndexFrom(ln, "section pictures", 1) - 1
             pageMarkerIdx == IndexFrom(ln, "// page:", 1) - 1
             endIdx ==
                 IF sectionPicturesIdx # -1 /\ sectionPicturesIdx < DefaultLookahead
                 THEN sectionPicturesIdx
                 ELSE IF pageMarkerIdx # -1 /\ pageMarkerIdx < DefaultLookahead
                      THEN pageMarkerIdx
                      ELSE DefaultLookahead
         IN  section \o "\n" \o SubSeq(nextSection, 1, Min({endIdx, Len(nextSection)}))

\* ratingsSection of the report with body section, followed by the body
\* nextSection (hasNext FALSE: the last report)
RatingsSection(section, hasNext, nextSection) ==
    IF ~hasNext THEN section
    ELSE LET ln == ToLower(nextSection)
             sectionPicturesIdx == IndexFrom(ln, "section pictures", 1) - 1
             pageMarkerIdx == IndexFrom(ln, "// page:", 1) - 1
             endIdx ==
                 IF sectionPicturesIdx # -1 /\ sectionPicturesIdx < DefaultLookahead
                 THEN sectionPicturesIdx
                 ELSE IF pageMarkerIdx # -1 /\ pageMarkerIdx < DefaultLookahead
                      THEN pageMarkerIdx + PageMarkerSlack
                      ELSE DefaultLookahead
         IN  section \o "\n" \o SubSeq(nextSection, 1, Min({endIdx, Len(nextSection)}))

\* the report object built from one body and its ratings window: a function
\* whose domain is the set of properties that were assigned
Report(section, ratingsSection) ==
    LET observations == Observations(section, 1)
    IN  Field("date", dateMatch(section), Same)
        @@ Field("certificateNumber", LabelRun(section, "Certificate Number:", WordOrDash), Same)
        @@ Field("psr", psrMatch(section), Same)
        @@ Field("surveyedBy", LabelLine(section, "Surveyed By:"), Trim)
        @@ Field("preCleaning",
                 LazyField(section, "Pre-cleaning:", {"\n"}, FALSE, {"Direction:"}), Trim)
        @@ Field("direction",
                 LazyField(section, "Direction:", {"\n"}, FALSE, {"Pipe Joint Length:"}), Trim)
        @@ Field("upstreamMH", LabelRun(section, "Upstream MH:", WordOrDash), Same)
        @@ Field("downstreamMH", LabelRun(section, "Downstream MH:", WordOrDash), Same)
        @@ Field("pipeShape", LabelRun(section, "Pipe shape:", WordChars), Same)
        @@ Field("pipeSize",
                 LazyField(section, "Pipe size:", Digits \cup Whitespace \cup {"\""}, TRUE,
                           {"Sewer Category:", "Purpose:"}), Trim)
        @@ Field("pipeMaterial",
                 LazyField(section, "Pipe material:", {"\n"}, FALSE,
                           {"Purpose:", "Lining Method:"}), Trim)
        @@ Field("sewerUse",
                 LazyField(section, "Sewer Use:", {"\n"}, FALSE, {"Total gallons"}), Trim)
        @@ Field("sewerCategory", LabelRun(section, "Sewer Category:", WordChars), Same)
        @@ Field("jointsPassed", LabelRun(section, "Joints passed:", Digits), ParseInt)
        @@ Field("jointsFailed", LabelRun(section, "Joints failed:", Digits), ParseInt)
        @@ Field("totalGallonsUsed",
                 LabelRun(section, "Total gallons used:", DigitsOrDot), ParseFloat)
        @@ Field("totalLength", QuotedLength(section, "Total Length:"), ParseFloat)
        @@ Field("lengthSurveyed", QuotedLength(section, "Length Surveyed:"), ParseFloat)
        @@ Ratings(ratingsSection)
        @@ (IF Len(observations) > 0 THEN "observations" :> observations ELSE <<>>)
        @@ Field("street", LabelLine(section, "Street:"), Trim)
        @@ Field("city", LabelLine(section, "City:"), Trim)

\* every report object is pushed
PushReportAlways(reports, report) == Append(reports, report)

\* if (Object.keys(report).length > 0) reports.push(report)
PushReport(reports, report) ==
    IF Cardinality(DOMAIN report) > 0 THEN Append(reports, report) ELSE reports

\* the loop for (let i = 1; i < reportSections.length; i++), from index i (the
\* model's index i + 1), with the reports pushed so far
RECURSIVE ReportLoop(_, _, _)
ReportLoop(reportSections, i, reports) ==
    IF i > Len(reportSections) THEN reports
    ELSE LET hasNext == i + 1 <= Len(reportSections)
             rs == RatingsSection(reportSections[i], hasNext,
                                  IF hasNext THEN reportSections[i + 1] ELSE "")
         IN  ReportLoop(reportSections, i + 1,
                        PushReport(reports, Report(reportSections[i], rs)))

extractInspectionReportData(t) == ReportLoop(SplitReports(t, ToLower(t)), 2, <<>>)

(***************************************************************************)
(* parsePDF: the cross-referencing pass and the value returned             *)
(***************************************************************************)
\* JavaScript's truthiness of report[k]: the property is set and not ""
Truthy(r, k) == k \in DOMAIN r /\ r[k] # ""

\* psrData.find(pred): the first entry, in list order, that satisfies Pred
Find(entries, Pred(_)) ==
    LET is == {i \in 1..Len(entries) : Pred(entries[i])}
    IN  IF is = {} THEN NoMatch ELSE <<entries[Min(is)]>>

\* the look-up by manholes alone
CrossReferencePSRAnyDate(report, entries) ==
    IF ~Truthy(report, "psr") /\ Truthy(report, "upstreamMH") /\ Truthy(report, "downstreamMH")
    THEN LET matchingProfile ==
                 Find(entries, LAMBDA q : /\ q.upstreamMH = report.upstreamMH
                                          /\ q.downstreamMH = report.downstreamMH)
         IN  IF matchingProfile # NoMatch
             THEN ("psr" :> matchingProfile[1].psr) @@ report ELSE report
    ELSE report

\* the first if of the forEach callback: a missing PSR is looked up by manholes
\* and, when the report has a date, by date
CrossReferencePSR(report, entries) ==
    IF ~Truthy(report, "psr") /\ Truthy(report, "upstreamMH") /\ Truthy(report, "downstreamMH")
    THEN LET matchingProfile ==
                 Find(entries, LAMBDA q : /\ q.upstreamMH = report.upstreamMH
                                          /\ q.downstreamMH = report.downstreamMH
                                          /\ (~Truthy(report, "date") \/ q.date = report.date))
         IN  IF matchingProfile # NoMatch
             THEN ("psr" :> matchingProfile[1].psr) @@ report ELSE report
    ELSE report

\* the material of the first entry with the report's PSR is copied whether or
\* not the report has a material
CrossReferenceMaterialOverwriting(report, entries) ==
    IF Truthy(report, "psr")
    THEN LET matchingProfile == Find(entries, LAMBDA q : q.psr = report.psr)
         IN  IF matchingProfile # NoMatch /\ matchingProfile[1].material # ""
             THEN ("pipeMaterial" :> matchingProfile[1].material) @@ report ELSE report
    ELSE report

\* the second if of the forEach callback: a missing material is copied from the
\* first entry with the report's PSR
CrossReferenceMaterial(report, entries) ==
    IF ~Truthy(report, "pipeMaterial") /\ Truthy(report, "psr")
    THEN LET matchingProfile == Find(entries, LAMBDA q : q.psr = report.psr)
         IN  IF matchingProfile # NoMatch /\ matchingProfile[1].material # ""
             THEN ("pipeMaterial" :> matchingProfile[1].material) @@ report ELSE report
    ELSE report

\* the material is looked up before the PSR is
CrossReferenceReportMaterialFirst(report, entries) ==
    CrossReferencePSR(CrossReferenceMaterial(report, entries), entries)

CrossReferenceReport(report, entries) ==
    CrossReferenceMaterial(CrossReferencePSR(report, entries), entries)

\* inspectionReports.reduce((sum, r) => sum + (r.observations ? ... : 0), 0)
RECURSIVE TotalObservations(_)
TotalObservations(reports) ==
    IF reports = <<>> THEN 0
    ELSE (IF "observations" \in DOMAIN Head(reports)
          THEN Len(Head(reports).observations) ELSE 0) + TotalObservations(Tail(reports))

\* the forEach pass over all the reports
CrossReferenceAll(reports, entries) ==
    [i \in 1..Len(reports) |-> CrossReferenceReport(reports[i], entries)]

\* the object returned on success (metadata.totalPages, the page count the PDF
\* library reports, is passed through untouched and left out)
SuccessResult(t, entries, reports) ==
    [success |-> TRUE,
     rawText |-> t,
     data |-> [sectionProfile |-> entries,
               inspectionReports |-> reports,
               metadata |-> [totalPSREntries |-> Len(entries),
                             totalInspectionReports |-> Len(reports),
                             totalObservations |-> TotalObservations(reports)]]]

\* the object returned by the catch clause
FailureResult(message) == [success |-> FALSE, error |-> message]

(***************************************************************************)
(* calculateStatistics and getConditionLabel                               *)
(***************************************************************************)
\* the bounds taken as exclusive
getConditionLabelExclusive(v) ==
    IF NumLess(v, "1.5") THEN "Excellent"
    ELSE IF NumLess(v, "2.5") THEN "Good"
    ELSE IF NumLess(v, "3.5") THEN "Fair"
    ELSE IF NumLess(v, "4.5") THEN "Poor"
    ELSE "Very Poor"

\* function getConditionLabel(opri)
getConditionLabel(v) ==
    IF NumLeq(v, "1.5") THEN "Excellent"
    ELSE IF NumLeq(v, "2.5") THEN "Good"
    ELSE IF NumLeq(v, "3.5") THEN "Fair"
    ELSE IF NumLeq(v, "4.5") THEN "Poor"
    ELSE "Very Poor"

\* x || 0 and x || Infinity: 0 and NaN are falsy
Falsy(x) == x \in {"0", "NaN"}

\* sectionProfile.reduce((max, p) => p.totalLength > (max?.totalLength || 0) ? p : max, first)
RECURSIVE LongestFrom(_, _)
LongestFrom(entries, max) ==
    IF entries = <<>> THEN max
    ELSE LET q == Head(entries)
         IN  LongestFrom(Tail(entries),
                 IF NumLess(IF Falsy(max.totalLength) THEN "0" ELSE max.totalLength,
                            q.totalLength)
                 THEN q ELSE max)

\* sectionProfile.reduce((min, p) => p.totalLength < (min?.totalLength || Infinity) ? p : min, first)
RECURSIVE ShortestFrom(_, _)
ShortestFrom(entries, min) ==
    IF entries = <<>> THEN min
    ELSE LET q == Head(entries)
         IN  ShortestFrom(Tail(entries),
                 IF (IF Falsy(min.totalLength) THEN q.totalLength # "NaN"
                     ELSE NumLess(q.totalLength, min.totalLength))
                 THEN q ELSE min)

\* stats.materials: how many entries name each material
Materials(entries) ==
    [m \in {entries[i].material : i \in 1..Len(entries)} |->
        Cardinality({i \in 1..Len(entries) : entries[i].material = m})]

\* stats.opriScores: one item per report whose opri is not undefined
RECURSIVE OpriScores(_)
OpriScores(reports) ==
    IF reports = <<>> THEN <<>>
    ELSE LET r == Head(reports)
         IN  (IF "opri" \in DOMAIN r
              THEN <<(IF "psr" \in DOMAIN r THEN "psr" :> r.psr ELSE <<>>)
                     @@ ("opri" :> r.opri)
                     @@ ("condition" :> getConditionLabel(r.opri))>>
              ELSE <<>>) \o OpriScores(Tail(reports))

\* every observation code of every report, in order
RECURSIVE ObservationCodeList(_)
ObservationCodeList(reports) ==
    IF reports = <<>> THEN <<>>
    ELSE LET r == Head(reports)
             obs == IF "observations" \in DOMAIN r THEN r.observations ELSE <<>>
         IN  [i \in 1..Len(obs) |-> obs[i].code] \o ObservationCodeList(Tail(reports))

\* stats.observationCodes: how often each code was observed
ObservationCodes(reports) ==
    LET codes == ObservationCodeList(reports)
    IN  [c \in {codes[i] : i \in 1..Len(codes)} |->
            Cardinality({i \in 1..Len(codes) : codes[i] = c})]

\* the statistics object (the sums of lengths, the average and the date range,
\* which are floating-point and locale arithmetic on the same lists, are left out)
calculateStatistics(parsedData) ==
    LET sectionProfile == parsedData.sectionProfile
        reports == parsedData.inspectionReports
    IN  [totalPSREntries |-> Len(sectionProfile),
         totalInspectionReports |-> Len(reports),
         materials |-> IF Len(sectionProfile) > 0 THEN Materials(sectionProfile) ELSE <<>>,
         longestSegment |->
             IF Len(sectionProfile) > 0
             THEN <<LongestFrom(sectionProfile, sectionProfile[1])>> ELSE <<>>,
         shortestSegment |->
             IF Len(sectionProfile) > 0
             THEN <<ShortestFrom(sectionProfile, sectionProfile[1])>> ELSE <<>>,
         opriScores |-> OpriScores(reports),
         observationCodes |-> ObservationCodes(reports)]

(***************************************************************************)
(* The documents parsed                                                    *)
(***************************************************************************)
\* the sequences of at most n elements of lib
SeqsUpTo(lib, n) == UNION {[1..k -> lib] : k \in 0..n}

\* the elements of parts, each preceded by before and followed by after
RECURSIVE Join(_, _, _)
Join(parts, before, after) ==
    IF parts = <<>> THEN ""
    ELSE before \o Head(parts) \o after \o Join(Tail(parts), before, after)

SectionHeading == "Section Profile\n"

\* lines of a Section Profile table: collapsed rows (two with the same PSR and
\* manholes), spaced rows (two with the same PSR and manholes, two whose manhole
\* columns differ but concatenate alike), a header line
CollapsedRow == "82797138-33-20-028138-33-20-02711/20/2024VCP61.2061.20"

CollapsedRowAgain == "91797138-33-20-028138-33-20-02711/21/2024PVC10.5010.50"

SpacedRow == "82 797 138-33-20-028 138-33-20-027 11/20/2024 VCP 61.20 61.20"

SpacedRowAgain == "91 797 138-33-20-028 138-33-20-027 11/21/2024 PVC 10.50 10.50"

SpacedRowShortIds == "7 642 38-33 20-028 1/2/2024 RCP 5.0 5.0"

SpacedRowShiftedIds == "8 642 38 33-20-028 1/3/2024 RCP 6.0 6.0"

SpacedRowElsewhere == "93 407 138-33-20-030 138-33-20-029 11/20/2024 RCP 5.0 5.0"

HeaderLine == "No. PSR Upstream MH Downstream MH Date Material"

ProfileLines ==
    {CollapsedRow, CollapsedRowAgain, SpacedRow, SpacedRowAgain,
     SpacedRowShortIds, SpacedRowShiftedIds, SpacedRowElsewhere, HeaderLine}

MaxLines == 3

ProfileDocs == {SectionHeading \o Join(ls, "", "\n") : ls \in SeqsUpTo(ProfileLines, MaxLines)}

\* collapsed rows whose leading digit run has every length up to MaxRunLen
RunBases == {"827971916421", "191642140711"}

MaxRunLen == 9

CollapsedTail == "138-33-20-028138-33-20-02711/20/2024VCP61.2061.20\n"

DigitRuns == {SubSeq(b, 1, n) : b \in RunBases, n \in 1..MaxRunLen}

RunDoc(d) == SectionHeading \o d \o CollapsedTail

RunDocs == {RunDoc(d) : d \in DigitRuns}

\* bodies of Inspection-report blocks: nothing to extract, an empty body, a
\* label with a blank value, two manholes, a PSR with a labeled OPRI
BodyNothing == "\nPage 2 of 9\n"

BodyBlankSurveyor == "\nSurveyed By: \n"

BodyManholes == "\nUpstream MH: 138-33-20-028\nDownstream MH: 138-33-20-027\n"

BodyRated == "\nPSR: 797\nOPRI:\n2.0\n"

ReportBodies == {BodyNothing, "", BodyBlankSurveyor, BodyManholes, BodyRated}

MaxReports == 3

ReportDocs ==
    {"Cover\n" \o Join(bs, "Inspection report", "") : bs \in SeqsUpTo(ReportBodies, MaxReports)}

\* a report whose ratings are in the concatenated layout: the labels on one
\* line, the values on the next.  A value is given with the number it denotes.
ConcatLabels == "QSRQMRSPRMPROPRSPRIMPRIOPRI"

QsrValues == {[digits |-> "1100", value |-> "1100"], [digits |-> "0907", value |-> "907"]}

QmrValues == {[digits |-> "3100", value |-> "3100"], [digits |-> "0042", value |-> "42"]}

ExampleTokens ==
    <<[token |-> "1.0", value |-> "1"], [token |-> "3.0", value |-> "3"],
      [token |-> "1.0", value |-> "1"], [token |-> "3.0", value |-> "3"],
      [token |-> "2.0", value |-> "2"], [token |-> "4.0", value |-> "4"]>>

OtherTokens ==
    <<[token |-> "5.5", value |-> "5.5"], [token |-> "0.5", value |-> "0.5"],
      [token |-> "2.5", value |-> "2.5"], [token |-> "4.5", value |-> "4.5"],
      [token |-> "3.5", value |-> "3.5"], [token |-> "1.5", value |-> "1.5"]>>

TokensAt(i) == {ExampleTokens[i], OtherTokens[i]}

TokenLines ==
    {<<t1, t2, t3, t4, t5, t6>> :
        t1 \in TokensAt(1), t2 \in TokensAt(2), t3 \in TokensAt(3),
        t4 \in TokensAt(4), t5 \in TokensAt(5), t6 \in TokensAt(6)}

ValueLine(q, m, ts) ==
    q.digits \o m.digits \o ts[1].token \o ts[2].token \o ts[3].token
             \o ts[4].token \o ts[5].token \o ts[6].token

ConcatDoc(valueLine) == "Inspection report\n" \o ConcatLabels \o "\n" \o valueLine \o "\n"

ConcatDocs ==
    {ConcatDoc(ValueLine(q, m, ts)) : q \in QsrValues, m \in QmrValues, ts \in TokenLines}

\* documents with a Section Profile table and Inspection-report blocks: rows
\* with the same manholes on two dates, and reports with and without a PSR, a
\* date, a downstream manhole
SpacedRowNextDay == "92 642 138-33-20-028 138-33-20-027 11/21/2024 PVC 10.50 10.50"

XrefLines == {SpacedRow, SpacedRowNextDay, SpacedRowElsewhere}

BodyNextDay ==
    "\nDate: 11/21/2024\nUpstream MH: 138-33-20-028\nDownstream MH: 138-33-20-027\n"

BodyWithPsr ==
    "\nPSR: 123\nDate: 11/20/2024\nUpstream MH: 138-33-20-028\nDownstream MH: 138-33-20-027\n"

BodyNoDownstream == "\nDate: 11/20/2024\nUpstream MH: 138-33-20-030\n"

XrefBodies == {BodyManholes, BodyNextDay, BodyWithPsr, BodyNoDownstream}

MaxXrefLines == 2

MaxXrefReports == 2

XrefDocs ==
    {SectionHeading \o Join(ls, "", "\n") \o Join(bs, "Inspection report", "") :
        ls \in SeqsUpTo(XrefLines, MaxXrefLines),
        bs \in SeqsUpTo(XrefBodies, MaxXrefReports) \ {<<>>}}

\* a document with one spaced row and one report block that has the row's
\* manholes and date, no PSR label, and a labeled OPRI with its value on the
\* next line
Rows ==
    [no : {"82"}, psr : {"797", "1887"},
     upstreamMH : {"138-33-20-028", "38-33-20-028", "138-33-20-028A"},
     downstreamMH : {"138-33-20-027", "138-33-20-027B"},
     date : {"11/20/2024", "1/2/2024"},
     material : {"VCP"}, totalLength : {"61.20"}, lengthSurveyed : {"61.20"}]

OpriTexts == {"1.5", "2.0", "4.6"}

RowLine(row) ==
    row.no \o " " \o row.psr \o " " \o row.upstreamMH \o " " \o row.downstreamMH
    \o " " \o row.date \o " " \o row.material \o " " \o row.totalLength
    \o " " \o row.lengthSurveyed

EndToEndDoc(row, o) ==
    SectionHeading \o RowLine(row) \o "\n"
    \o "Inspection report\nDate: " \o row.date
    \o "\nUpstream MH: " \o row.upstreamMH
    \o "\nDownstream MH: " \o row.downstreamMH
    \o "\nOPRI:\n" \o o \o "\n"

EndToEndDocs == {EndToEndDoc(row, o) : row \in Rows, o \in OpriTexts}

(***************************************************************************)
(* parsePDF and its caller, step by step                                   *)
(***************************************************************************)
PdfErrors == {"Invalid PDF structure"}

\* nothing is being parsed
ParseIdle ==
    /\ text = "" /\ pc = "idle"
    /\ psrData = <<>> /\ inspectionReports = <<>>
    /\ result = <<>> /\ statistics = <<>> /\ returned = <<>>

\* no label is being computed
LabelIdle == opri = "" /\ condition = ""

\* no ratings window is being built
WindowIdle == window = <<>>

\* no page is being normalized
PageIdle == page = <<>>

\* the server has received no request
ServerIdle ==
    /\ uploads = <<>> /\ projects = <<>> /\ savedData = {} /\ parsedDataStore = <<>>
    /\ response = <<>>

\* the first call parsePDF(dataBuffer), for a PDF whose text is one of docs
ParseInit(docs) ==
    /\ text \in docs
    /\ pc = "pdf"
    /\ psrData = <<>>
    /\ inspectionReports = <<>>
    /\ result = <<>>
    /\ statistics = <<>>
    /\ returned = <<>>
    /\ LabelIdle
    /\ ServerIdle
    /\ WindowIdle
    /\ PageIdle

NotParse == <<opri, condition, uploads, projects, savedData, parsedDataStore, window, page, response>>

\* const data = await pdf(dataBuffer, ...); const text = data.text
PdfResolves ==
    /\ pc = "pdf"
    /\ pc' = "text"
    /\ UNCHANGED <<text, psrData, inspectionReports, result, statistics, returned, NotParse>>

\* pdf(dataBuffer) throws: catch (error) { return { success: false, ... } }
PdfRejects ==
    /\ pc = "pdf"
    /\ \E e \in PdfErrors : result' = FailureResult(e)
    /\ pc' = "returned"
    /\ UNCHANGED <<text, psrData, inspectionReports, statistics, returned, NotParse>>

\* const psrData = extractSectionProfileData(text)
ExtractSectionProfile ==
    /\ pc = "text"
    /\ psrData' = extractSectionProfileData(text)
    /\ pc' = "profile"
    /\ UNCHANGED <<text, inspectionReports, result, statistics, returned, NotParse>>

\* const inspectionReports = extractInspectionReportData(text)
ExtractInspectionReports ==
    /\ pc = "profile"
    /\ inspectionReports' = extractInspectionReportData(text)
    /\ pc' = "reports"
    /\ UNCHANGED <<text, psrData, result, statistics, returned, NotParse>>

\* the cross-referencing pass starts as soon as the section profile is there
CrossReferenceBeforeReports ==
    /\ pc \in {"profile", "reports"}
    /\ inspectionReports' = CrossReferenceAll(inspectionReports, psrData)
    /\ pc' = "crossref"
    /\ UNCHANGED <<text, psrData, result, statistics, returned, NotParse>>

\* inspectionReports.forEach(report => { ... })
CrossReference ==
    /\ pc = "reports"
    /\ inspectionReports' = CrossReferenceAll(inspectionReports, psrData)
    /\ pc' = "crossref"
    /\ UNCHANGED <<text, psrData, result, statistics, returned, NotParse>>

\* return { success: true, rawText: text, data: { ... } }
ReturnSuccess ==
    /\ pc = "crossref"
    /\ result' = SuccessResult(text, psrData, inspectionReports)
    /\ returned' = Append(returned, [text |-> text, sectionProfile |-> psrData,
                                     inspectionReports |-> inspectionReports])
    /\ pc' = "returned"
    /\ UNCHANGED <<text, psrData, inspectionReports, statistics, NotParse>>

\* the caller: if (result.success) statistics = calculateStatistics(result.data)
CalculateStatistics ==
    /\ pc = "returned"
    /\ result.success
    /\ statistics' = calculateStatistics(result.data)
    /\ pc' = "statistics"
    /\ UNCHANGED <<text, psrData, inspectionReports, result, returned, NotParse>>

ParseNext ==
    \/ PdfResolves
    \/ PdfRejects
    \/ ExtractSectionProfile
    \/ ExtractInspectionReports
    \/ CrossReference
    \/ ReturnSuccess
    \/ CalculateStatistics

\* the documents parsed again and again
RepeatDocs ==
    {SectionHeading \o l \o "\nInspection report" \o b :
        l \in {SpacedRow, SpacedRowNextDay}, b \in {BodyManholes, BodyRated}}

MaxParses == 3

\* the caller is done with one PDF and calls parsePDF for another one: the
\* locals of the new call are new
ParseAgain ==
    /\ pc = "statistics" \/ (pc = "returned" /\ ~result.success)
    /\ Len(returned) < MaxParses
    /\ text' \in RepeatDocs
    /\ pc' = "pdf"
    /\ psrData' = <<>>
    /\ inspectionReports' = <<>>
    /\ result' = <<>>
    /\ statistics' = <<>>
    /\ UNCHANGED <<returned, NotParse>>

RepeatNext == ParseNext \/ ParseAgain

RepeatInit == ParseInit(RepeatDocs)

RepeatSpec == RepeatInit /\ [][RepeatNext]_vars

\* getConditionLabel(opri) for the indices that parseFloat gives for the texts
\* a.b with a up to MaxOpriUnits and one digit b
DigitChars == <<"0", "1", "2", "3", "4", "5", "6", "7", "8", "9">>

RECURSIVE NatNumeral(_)
NatNumeral(n) ==
    IF n < 10 THEN DigitChars[n + 1] ELSE NatNumeral(n \div 10) \o DigitChars[(n % 10) + 1]

MaxOpriUnits == 9

OpriText(a, b) == NatNumeral(a) \o "." \o NatNumeral(b)

OpriValues == {ParseFloat(OpriText(a, b)) : a \in 0..MaxOpriUnits, b \in 0..9}

LabelInit ==
    /\ ParseIdle
    /\ ServerIdle
    /\ WindowIdle
    /\ PageIdle
    /\ opri \in OpriValues
    /\ condition = ""

GetConditionLabel ==
    /\ condition = ""
    /\ condition' = getConditionLabel(opri)
    /\ UNCHANGED <<text, pc, psrData, inspectionReports, result, statistics, returned,
                   opri, uploads, projects, savedData, parsedDataStore, window, page, response>>

LabelNext == GetConditionLabel

LabelSpec == LabelInit /\ [][LabelNext]_vars

\* Section Profile tables whose rows differ in PSR and manholes and have total
\* lengths that are zero, equal to one another, or different
SegmentLengths == {"0", "5.0", "5.00", "61.20"}

MaxSegments == 3

SegmentRow(i, len) ==
    NatNumeral(i) \o " 40" \o NatNumeral(i) \o " 138-33-20-02" \o NatNumeral(i)
    \o " 138-33-20-03" \o NatNumeral(i) \o " 11/20/2024 RCP " \o len \o " " \o len

SegmentDocs ==
    {SectionHeading \o Join([i \in DOMAIN ls |-> SegmentRow(i, ls[i])], "", "\n") :
        ls \in SeqsUpTo(SegmentLengths, MaxSegments)}

StatsInit == ParseInit(SegmentDocs)

\* parsePDF and calculateStatistics for tables with these lengths
StatsSpec == StatsInit /\ [][ParseNext]_vars

\* the text of a PDF from which no character was extracted (a scanned PDF)
EmptyText == ""

\* the two extractor calls of parsePDF made in the other order:
\* extractInspectionReportData(text) first
ExtractInspectionReportsFirst ==
    /\ pc = "text"
    /\ inspectionReports' = extractInspectionReportData(text)
    /\ pc' = "reportsFirst"
    /\ UNCHANGED <<text, psrData, result, statistics, returned, NotParse>>

\* ... and extractSectionProfileData(text) after it
ExtractSectionProfileSecond ==
    /\ pc = "reportsFirst"
    /\ psrData' = extractSectionProfileData(text)
    /\ pc' = "reports"
    /\ UNCHANGED <<text, inspectionReports, result, statistics, returned, NotParse>>

OrderNext ==
    \/ ParseNext
    \/ ExtractInspectionReportsFirst
    \/ ExtractSectionProfileSecond

OrderInit == ParseInit(RepeatDocs \cup EndToEndDocs)

\* parsePDF with its two extractor calls in either order
OrderSpec == OrderInit /\ [][OrderNext]_vars

\* lines of a Section Profile table that match neither pattern: a note, a
\* collapsed row with one manhole ID, a collapsed row whose digit run has 3
\* digits, and the two halves of a spaced row that is wrapped over two lines
NoteLine == "see attached map"

OneManholeRow == "82797138-33-20-02811/20/2024VCP61.2061.20"

NoPsrRow == "797138-33-20-028138-33-20-02711/20/2024VCP61.2061.20"

WrappedRowStart == "82 797 138-33-20-028"

WrappedRowEnd == "138-33-20-027 11/20/2024 VCP 61.20 61.20"

UnmatchedLines == {NoteLine, OneManholeRow, NoPsrRow, WrappedRowStart, WrappedRowEnd}

\* the first line of a text: the heading of the table, or another one
Openers == {SectionHeading, "Summary\n"}

MalformedDocs ==
    {o \o Join(ls, "", "\n") :
        o \in Openers,
        ls \in SeqsUpTo({CollapsedRow, SpacedRowElsewhere} \cup UnmatchedLines, MaxLines)}

MalformedInit == ParseInit(MalformedDocs)

\* parsePDF for texts with and without the heading and with lines that match
\* no pattern
MalformedSpec == MalformedInit /\ [][ParseNext]_vars

\* documents for the material look-up: two rows with PSR 797 and different
\* manholes and materials, a row with the manholes of the first and another
\* PSR; reports without PSR, with the PSR of a row, with a PSR of no row, and
\* with a pipe material of their own or a blank one
SamePsrRow == "94 797 138-33-20-040 138-33-20-039 11/22/2024 DIP 7.0 7.0"

MaterialLines == {SpacedRow, SpacedRowNextDay, SamePsrRow}

BodyOwnMaterial == "\nPSR: 797\nPipe material: Clay Purpose: Sanitary\n"

\* the material field left blank on the form
BodyBlankMaterial == "\nPSR: 797\nPipe material:   Purpose: Sanitary\n"

MaterialBodies ==
    {BodyManholes, BodyWithPsr, BodyOwnMaterial, BodyBlankMaterial}

MaxMaterialLines == 2

MaxMaterialReports == 2

MaterialDocs ==
    {SectionHeading \o Join(ls, "", "\n") \o Join(bs, "Inspection report", "") :
        ls \in SeqsUpTo(MaterialLines, MaxMaterialLines),
        bs \in SeqsUpTo(MaterialBodies, MaxMaterialReports) \ {<<>>}}

MaterialInit == ParseInit(MaterialDocs)

\* parsePDF for these documents
MaterialSpec == MaterialInit /\ [][ParseNext]_vars

\* reports whose bodies hold PSR labels: the four label variants in the order
\* of their priority, each with a PSR of its own
PsrVariants ==
    <<[label |-> "Pipe Segment Ref.:", psr |-> "111"], [label |-> "PSR:", psr |-> "222"],
      [label |-> "Ref.:", psr |-> "333"], [label |-> "Segment Reference:", psr |-> "444"]>>

\* the label of each variant as printed, in small letters and in capitals
LabelSpellings ==
    <<{"Pipe Segment Ref.:", "pipe segment ref.:", "PIPE SEGMENT REF.:"},
      {"PSR:", "psr:", "Psr:"},
      {"Ref.:", "ref.:", "REF.:"},
      {"Segment Reference:", "segment reference:", "SEGMENT REFERENCE:"}>>

MaxPsrLabels == 3

\* the report that follows: none, or one with a PSR label of its own
FollowingReports == {"", "Inspection report\nPSR: 999\n"}

PsrBody(lines) == "Inspection report\nDate: 11/20/2024\n" \o Join(lines, "", "\n")

\* a report whose body has the labels of the variants vs, in this order, as
\* printed, with the variants listed
PriorityCases ==
    {[text |-> PsrBody([i \in DOMAIN vs |->
                            PsrVariants[vs[i]].label \o " " \o PsrVariants[vs[i]].psr]) \o f,
      labels |-> vs] :
        vs \in SeqsUpTo(1..4, MaxPsrLabels), f \in FollowingReports}

\* a report whose body has one label, in one of its spellings
SpellingCases ==
    {[text |-> PsrBody(<<c[2] \o " " \o PsrVariants[c[1]].psr>>), labels |-> <<c[1]>>] :
        c \in UNION {{<<v, l>> : l \in LabelSpellings[v]} : v \in 1..4}}

PsrInit == ParseInit({c.text : c \in PriorityCases \cup SpellingCases})

\* parsePDF for these reports
PsrSpec == PsrInit /\ [][ParseNext]_vars

\* collapsed rows whose text for a length has no digit before or after the dot
DotLengthDocs ==
    {SectionHeading \o "82797138-33-20-028138-33-20-02711/20/2024VCP" \o len \o "\n" :
        len \in {".5", "61."}}

\* Section Profile tables of every shape, and the PDF without text
ProfileInit == ParseInit(ProfileDocs \cup RunDocs \cup {EmptyText} \cup DotLengthDocs)

ProfileSpec == ProfileInit /\ [][ParseNext]_vars

(***************************************************************************)
(* server.js: POST /api/upload                                             *)
(***************************************************************************)
\* the try block of parsePDF once the text is there
ParseText(t, entries, reports) ==
    SuccessResult(t, entries, CrossReferenceAll(reports, entries))

\* parsePDF(dataBuffer) as one call: e is the message of the error the PDF
\* library throws, "" when it returns the text t
parsePDF(t, e) ==
    IF e # "" THEN FailureResult(e)
    ELSE ParseText(t, extractSectionProfileData(t), extractInspectionReportData(t))

UploadDocs ==
    {SectionHeading \o SpacedRow \o "\nInspection report" \o BodyRated,
     SectionHeading \o SpacedRowNextDay \o "\nInspection report" \o BodyManholes}

\* what the parser may hand to the handler: the text of a PDF parsed, or the
\* failure for an error
ParseResults ==
    {parsePDF(i.text, i.error) :
        i \in [text : UploadDocs, error : {""}] \cup [text : {""}, error : PdfErrors]}

MaxUploads == 2

\* the ids of the registered users: req.session.userId of a session logged in
Users == {1, 2}

\* the users who upload
Uploaders == {1}

ParseVars == <<text, pc, psrData, inspectionReports, result, statistics, returned>>

LabelVars == <<opri, condition, window, page, response>>

\* a request of a logged-in user (requireAuth has called next()) arrives with
\* or without a file; multer names the file and stores it under a path of its
\* own (onDisk).  doc is the text of the PDF sent; py,
\* promise, code, stdout and unlinks are the state of the call of
\* parsePDFWithPython made for the request, parsers the parsers called for it
Request ==
    /\ Len(uploads) < MaxUploads
    /\ \E f \in BOOLEAN, d \in UploadDocs, userId \in Uploaders :
           uploads' = Append(uploads,
                             [pc |-> "handler", userId |-> userId, file |-> f,
                              originalname |-> NatNumeral(Len(uploads) + 1) \o ".pdf",
                              doc |-> IF f THEN d ELSE "", onDisk |-> f,
                              py |-> "none", promise |-> "none", code |-> 0,
                              stdout |-> <<>>, unlinks |-> 0, parsers |-> <<>>,
                              result |-> <<>>, statistics |-> <<>>, project |-> 0,
                              status |-> 0, failed |-> ""])
    /\ UNCHANGED <<projects, savedData, parsedDataStore, ParseVars, LabelVars>>

\* if (!req.file) return res.status(400).json(...)
NoFile(u) ==
    /\ uploads[u].pc = "handler"
    /\ ~uploads[u].file
    /\ uploads' = [uploads EXCEPT ![u].pc = "responded", ![u].status = 400]
    /\ UNCHANGED <<projects, savedData, parsedDataStore, ParseVars, LabelVars>>

\* await fs.readFile(req.file.path) resolves and parsePDFWithPython is called
ReadFileResolves(u) ==
    /\ uploads[u].pc = "handler"
    /\ uploads[u].file
    /\ uploads' = [uploads EXCEPT ![u].pc = "parsing", ![u].py = "writing",
                                  ![u].promise = "pending",
                                  ![u].parsers = Append(@, "parsePDFWithPython")]
    /\ UNCHANGED <<projects, savedData, parsedDataStore, ParseVars, LabelVars>>

\* the parser resolves and the handler goes on without looking at result.success
ParseResolvesUnchecked(u) ==
    /\ uploads[u].pc = "parsing"
    /\ \E r \in ParseResults :
           uploads' = [uploads EXCEPT ![u].result = r, ![u].pc = "creating"]
    /\ UNCHANGED <<projects, savedData, parsedDataStore, ParseVars, LabelVars>>

\* the parser resolves: if (!result.success) return res.status(500).json(...);
\* otherwise the statistics are calculated and projectOperations.create is called
ParseResolves(u) ==
    /\ uploads[u].pc = "parsing"
    /\ \E r \in ParseResults :
           uploads' =
               IF ~r.success
               THEN [uploads EXCEPT ![u].result = r, ![u].pc = "responded",
                                    ![u].status = 500, ![u].failed = "parsing"]
               ELSE [uploads EXCEPT ![u].result = r,
                                    ![u].statistics = calculateStatistics(r.data),
                                    ![u].pc = "creating"]
    /\ UNCHANGED <<projects, savedData, parsedDataStore, ParseVars, LabelVars>>

\* an awaited promise rejects (readFile, the parser, create, save) and the
\* catch clause answers 500
Rejects(u) ==
    /\ \/ uploads[u].pc = "handler" /\ uploads[u].file
       \/ uploads[u].pc \in {"parsing", "creating", "saving"}
    /\ uploads' = [uploads EXCEPT ![u].pc = "responded", ![u].status = 500,
                                  ![u].failed = uploads[u].pc]
    /\ UNCHANGED <<projects, savedData, parsedDataStore, ParseVars, LabelVars>>

\* await projectOperations.create(req.session.userId, ...) resolves with a new
\* project
CreateResolves(u) ==
    /\ uploads[u].pc = "creating"
    /\ projects' = Append(projects, [id |-> Len(projects) + 1,
                                     userId |-> uploads[u].userId,
                                     name |-> uploads[u].originalname])
    /\ uploads' = [uploads EXCEPT ![u].project = Len(projects) + 1, ![u].pc = "saving"]
    /\ UNCHANGED <<savedData, parsedDataStore, ParseVars, LabelVars>>

\* await dataOperations.save(...) resolves and the handler assigns a new object
\* holding this result alone to parsedDataStore
SaveResolvesReplacingStore(u) ==
    /\ uploads[u].pc = "saving"
    /\ savedData' = savedData \cup {uploads[u].project}
    /\ parsedDataStore' =
           (NatNumeral(uploads[u].project) :>
               [sectionProfile |-> uploads[u].result.data.sectionProfile,
                inspectionReports |-> uploads[u].result.data.inspectionReports,
                metadata |-> uploads[u].result.data.metadata,
                statistics |-> uploads[u].statistics,
                filename |-> uploads[u].originalname,
                rawText |-> uploads[u].result.rawText])
    /\ uploads' = [uploads EXCEPT ![u].pc = "unlinking", ![u].unlinks = @ + 1]
    /\ UNCHANGED <<projects, ParseVars, LabelVars>>

\* await dataOperations.save(project.id, ...) resolves; parsedDataStore[dataId]
\* is set and fs.unlink is called
SaveResolves(u) ==
    /\ uploads[u].pc = "saving"
    /\ savedData' = savedData \cup {uploads[u].project}
    /\ parsedDataStore' =
           (NatNumeral(uploads[u].project) :>
               [sectionProfile |-> uploads[u].result.data.sectionProfile,
                inspectionReports |-> uploads[u].result.data.inspectionReports,
                metadata |-> uploads[u].result.data.metadata,
                statistics |-> uploads[u].statistics,
                filename |-> uploads[u].originalname,
                rawText |-> uploads[u].result.rawText])
           @@ parsedDataStore
    /\ uploads' = [uploads EXCEPT ![u].pc = "unlinking", ![u].unlinks = @ + 1]
    /\ UNCHANGED <<projects, ParseVars, LabelVars>>

\* await fs.unlink(...).catch(...) is over: res.json({ success: true, ... })
Respond(u) ==
    /\ uploads[u].pc = "unlinking"
    /\ uploads' = [uploads EXCEPT ![u].pc = "responded", ![u].status = 200,
                                  ![u].onDisk = FALSE]
    /\ UNCHANGED <<projects, savedData, parsedDataStore, ParseVars, LabelVars>>

Init ==
    /\ ParseIdle
    /\ LabelIdle
    /\ ServerIdle
    /\ WindowIdle
    /\ PageIdle

Next ==
    \/ Request
    \/ \E u \in 1..Len(uploads) : NoFile(u)
    \/ \E u \in 1..Len(uploads) : ReadFileResolves(u)
    \/ \E u \in 1..Len(uploads) : ParseResolves(u)
    \/ \E u \in 1..Len(uploads) : Rejects(u)
    \/ \E u \in 1..Len(uploads) : CreateResolves(u)
    \/ \E u \in 1..Len(uploads) : SaveResolves(u)
    \/ \E u \in 1..Len(uploads) : Respond(u)

Spec == Init /\ [][Next]_vars

(***************************************************************************)
(* server.js: the GET routes that return parsed data                       *)
(***************************************************************************)
\* req.session.userId of a request: 0 for a request without a session
Sessions == {0} \cup Users

\* the :id and :projectId of the requests
RequestIds == {NatNumeral(n) : n \in 1..MaxUploads}

\* the q and material of GET /api/data/:id/search
SearchQueries ==
    {[q |-> "", material |-> ""], [q |-> "138-33-20-028", material |-> ""],
     [q |-> "797", material |-> "PVC"]}

ServerVars == <<uploads, projects, savedData, parsedDataStore>>

Answer(route, userId, id, status, body) ==
    /\ response' = [route |-> route, userId |-> userId, id |-> id,
                    status |-> status, body |-> body]
    /\ UNCHANGED <<ServerVars, ParseVars, opri, condition, window, page>>

\* auth.js requireAuth
requireAuth(userId) == userId # 0

\* app.get('/api/projects/:projectId/data', requireAuth, ...): the data saved
\* for a project of the user of the session
GetProjectData ==
    \E userId \in Sessions, id \in RequestIds :
        LET owned == {k \in 1..Len(projects) :
                         /\ NatNumeral(projects[k].id) = id
                         /\ projects[k].userId = userId}
            saved == {k \in owned : projects[k].id \in savedData}
        IN  IF ~requireAuth(userId) THEN Answer("project", userId, id, 401, <<>>)
            ELSE IF owned = {} \/ saved = {} THEN Answer("project", userId, id, 404, <<>>)
            ELSE Answer("project", userId, id, 200,
                        <<[projectId |-> projects[CHOOSE k \in saved : TRUE].id]>>)

\* app.get('/api/data/:id', ...)
GetData ==
    \E userId \in Sessions, id \in RequestIds :
        IF id \notin DOMAIN parsedDataStore THEN Answer("data", userId, id, 404, <<>>)
        ELSE Answer("data", userId, id, 200, <<parsedDataStore[id]>>)

\* app.get('/api/export/:id/json', ...)
ExportJson ==
    \E userId \in Sessions, id \in RequestIds :
        IF id \notin DOMAIN parsedDataStore THEN Answer("export", userId, id, 404, <<>>)
        ELSE Answer("export", userId, id, 200, <<parsedDataStore[id]>>)

\* app.get('/api/data/:id/debug', ...): the start of the raw text and the
\* numbers of records
DebugData ==
    \E userId \in Sessions, id \in RequestIds :
        IF id \notin DOMAIN parsedDataStore THEN Answer("debug", userId, id, 404, <<>>)
        ELSE LET data == parsedDataStore[id]
             IN  Answer("debug", userId, id, 200,
                        <<[textPreview |-> SubSeq(data.rawText, 1,
                                                  Min({Len(data.rawText), 2000})),
                           totalReports |-> Len(data.inspectionReports),
                           totalSectionProfile |-> Len(data.sectionProfile)]>>)

\* results.filter(...) for q and for material
SearchResults(sectionProfile, q, material) ==
    LET query == ToLower(q)
        ByQuery(p) == q = "" \/ Includes(ToLower(p.psr), query)
                             \/ Includes(ToLower(p.upstreamMH), query)
                             \/ Includes(ToLower(p.downstreamMH), query)
        ByMaterial(p) == material = "" \/ p.material = material
    IN  SelectSeq(sectionProfile, LAMBDA p : ByQuery(p) /\ ByMaterial(p))

\* app.get('/api/data/:id/search', ...), for requests without minLength and
\* maxLength
SearchData ==
    \E userId \in Sessions, id \in RequestIds, query \in SearchQueries :
        IF id \notin DOMAIN parsedDataStore THEN Answer("search", userId, id, 404, <<>>)
        ELSE Answer("search", userId, id, 200,
                    <<SearchResults(parsedDataStore[id].sectionProfile,
                                    query.q, query.material)>>)

AccessNext ==
    \/ Next
    \/ GetProjectData
    \/ GetData
    \/ ExportJson
    \/ DebugData
    \/ SearchData

AccessSpec == Init /\ [][AccessNext]_vars

(***************************************************************************)
(* parsePDFWithPython (backend/pdfParserPython.js) under the upload handler *)
(***************************************************************************)
\* the exit codes of the Python script: 0, and 1 for a script that failed
ExitCodes == {0, 1}

\* the code the close event carries when the process could not be started
FailedSpawnCodes == {-2}

\* stdout that is not JSON
NotJson == [json |-> FALSE, value |-> <<>>]

\* what the script may have printed for the document d when the process
\* closes: text that is not JSON, the JSON of the result for d, or the JSON of
\* a failure
PythonOutputs(d) ==
    {NotJson} \cup {[json |-> TRUE, value |-> r] :
                      r \in {q \in ParseResults : q.success => q.rawText = d}}

\* resolve and reject of a promise that is settled already do nothing
Settle(promise, settlement) == IF promise = "pending" THEN settlement ELSE promise

\* the close handler settles on the exit code alone and resolves whatever JSON
\* was printed
PythonSettlementAnyJson(code, out) ==
    IF code # 0 THEN "rejected" ELSE IF ~out.json THEN "rejected" ELSE "resolved"

\* the close handler after the unlink: reject on a non-zero code, on output
\* JSON.parse throws on and on a result without success, else resolve(result)
PythonSettlement(code, out) ==
    IF code # 0 THEN "rejected"
    ELSE IF ~out.json THEN "rejected"
    ELSE IF ~out.value.success THEN "rejected"
    ELSE "resolved"

\* await fs.writeFile(tempFilePath, dataBuffer) resolves and spawn is called
WriteFileResolves(u) ==
    /\ uploads[u].py = "writing"
    /\ uploads' = [uploads EXCEPT ![u].py = "spawned", ![u].onDisk = TRUE]
    /\ UNCHANGED <<projects, savedData, parsedDataStore, ParseVars, LabelVars>>

\* await fs.writeFile(...) rejects: catch (err) { reject(err) }
WriteFileRejects(u) ==
    /\ uploads[u].py = "writing"
    /\ uploads' = [uploads EXCEPT ![u].py = "done",
                                  ![u].promise = Settle(@, "rejected")]
    /\ UNCHANGED <<projects, savedData, parsedDataStore, ParseVars, LabelVars>>

\* python.on('error'): the process could not be started; the promise is
\* rejected and nothing else is done
PythonError(u) ==
    /\ uploads[u].py = "spawned"
    /\ uploads' = [uploads EXCEPT ![u].py = "errored",
                                  ![u].promise = Settle(@, "rejected")]
    /\ UNCHANGED <<projects, savedData, parsedDataStore, ParseVars, LabelVars>>

\* python.on('close'), after the process ended or after it failed to start:
\* await fs.unlink(tempFilePath) is issued
PythonClose(u) ==
    /\ uploads[u].py \in {"spawned", "errored"}
    /\ \E c \in IF uploads[u].py = "spawned" THEN ExitCodes ELSE FailedSpawnCodes,
          o \in IF uploads[u].py = "spawned" THEN PythonOutputs(uploads[u].doc)
                ELSE {NotJson} :
           uploads' = [uploads EXCEPT ![u].py = "unlinking", ![u].code = c,
                                      ![u].stdout = o, ![u].unlinks = @ + 1]
    /\ UNCHANGED <<projects, savedData, parsedDataStore, ParseVars, LabelVars>>

\* the unlink is over and the rest of the close handler runs
UnlinkSettles(u) ==
    /\ uploads[u].py = "unlinking"
    /\ uploads' = [uploads EXCEPT
                      ![u].py = "done", ![u].onDisk = FALSE,
                      ![u].promise =
                          Settle(@, PythonSettlement(uploads[u].code, uploads[u].stdout))]
    /\ UNCHANGED <<projects, savedData, parsedDataStore, ParseVars, LabelVars>>

\* the promise of parsePDFWithPython is resolved and the handler goes on:
\* if (!result.success) return res.status(500)...; calculateStatistics;
\* projectOperations.create is called
PythonResolves(u) ==
    /\ uploads[u].pc = "parsing"
    /\ uploads[u].promise = "resolved"
    /\ uploads' =
           IF ~uploads[u].stdout.value.success
           THEN [uploads EXCEPT ![u].result = uploads[u].stdout.value,
                                ![u].pc = "responded", ![u].status = 500,
                                ![u].failed = "parsing"]
           ELSE [uploads EXCEPT ![u].result = uploads[u].stdout.value,
                                ![u].statistics =
                                    calculateStatistics(uploads[u].stdout.value.data),
                                ![u].pc = "creating"]
    /\ UNCHANGED <<projects, savedData, parsedDataStore, ParseVars, LabelVars>>

\* catch (error) { res.status(500).json({ error: error.message }) }: readFile,
\* create or save rejects, or the promise of parsePDFWithPython is rejected
HandlerCatches(u) ==
    /\ \/ uploads[u].pc = "handler" /\ uploads[u].file
       \/ uploads[u].pc = "parsing" /\ uploads[u].promise = "rejected"
       \/ uploads[u].pc \in {"creating", "saving"}
    /\ uploads' = [uploads EXCEPT ![u].pc = "responded", ![u].status = 500,
                                  ![u].failed = uploads[u].pc]
    /\ UNCHANGED <<projects, savedData, parsedDataStore, ParseVars, LabelVars>>

PythonNext ==
    \/ Request
    \/ \E u \in 1..Len(uploads) : NoFile(u)
    \/ \E u \in 1..Len(uploads) : ReadFileResolves(u)
    \/ \E u \in 1..Len(uploads) : WriteFileResolves(u)
    \/ \E u \in 1..Len(uploads) : WriteFileRejects(u)
    \/ \E u \in 1..Len(uploads) : PythonError(u)
    \/ \E u \in 1..Len(uploads) : PythonClose(u)
    \/ \E u \in 1..Len(uploads) : UnlinkSettles(u)
    \/ \E u \in 1..Len(uploads) : PythonResolves(u)
    \/ \E u \in 1..Len(uploads) : HandlerCatches(u)
    \/ \E u \in 1..Len(uploads) : CreateResolves(u)
    \/ \E u \in 1..Len(uploads) : SaveResolves(u)
    \/ \E u \in 1..Len(uploads) : Respond(u)

PythonSpec == Init /\ [][PythonNext]_vars

(***************************************************************************)
(* The ratings window of one report                                        *)
(***************************************************************************)
\* n characters of body text that hold no marker
RECURSIVE Pad(_)
Pad(n) ==
    IF n = 0 THEN "" ELSE IF n = 1 THEN "x"
    ELSE Pad(n \div 2) \o Pad(n - (n \div 2))

\* where a marker starts in the next body (0-based): at its start, and around
\* the two limits DefaultLookahead - PageMarkerSlack and DefaultLookahead
MarkerOffsets ==
    {0, 10} \cup {DefaultLookahead - PageMarkerSlack + k : k \in {-1, 0, 1}}
            \cup {DefaultLookahead - Len("section pictures") + k : k \in {-1, 0, 1}}
            \cup {DefaultLookahead + k : k \in {-1, 0, 10}}

\* the markers the next body holds: none, either one, or both in either order
Markers ==
    {"", "Section Pictures", "SECTION PICTURES", "// Page: 2",
     "// Page: 2\nSection Pictures", "Section Pictures\n// Page: 2"}

\* how much text follows the markers
TailLengths == {0, 30, 100}

NextSections == {Pad(a) \o mk \o Pad(b) : a \in MarkerOffsets, mk \in Markers, b \in TailLengths}

OwnSections == {"\nDate: 11/20/2024\n"}

\* a report body with the body that follows it, or the last body of the text
WindowInit ==
    /\ ParseIdle
    /\ LabelIdle
    /\ ServerIdle
    /\ PageIdle
    /\ window \in [section : OwnSections, hasNext : {TRUE}, nextSection : NextSections,
                   ratingsSection : {""}, built : {FALSE}]
                  \cup [section : OwnSections, hasNext : {FALSE}, nextSection : {""},
                        ratingsSection : {""}, built : {FALSE}]

\* let ratingsSection = section; if (i + 1 < reportSections.length) { ... }
BuildRatingsSection ==
    /\ ~window.built
    /\ window' = [window EXCEPT
                     !.ratingsSection =
                         RatingsSection(window.section, window.hasNext, window.nextSection),
                     !.built = TRUE]
    /\ UNCHANGED <<ParseVars, opri, condition, uploads, projects, savedData, parsedDataStore,
                   page, response>>

WindowNext == BuildRatingsSection

WindowSpec == WindowInit /\ [][WindowNext]_vars

(***************************************************************************)
(* check-position.js: extractSectionProfileFromText                        *)
(***************************************************************************)
\* sectionMatch: /Section Profile[\s\S]*?(?=\n\n\n|\nInspection report|$)/i
sectionMatch(t) ==
    LET lt == ToLower(t)
        st == IndexFrom(lt, "section profile", 1)
        from == st + Len("section profile")
        ends == {e \in {IndexFrom(t, "\n\n\n", from),
                        IndexFrom(lt, "\ninspection report", from)} : e # 0}
    IN  IF st = 0 THEN NoMatch
        ELSE <<SubSeq(t, st, IF ends = {} THEN Len(t) ELSE Min(ends) - 1)>>

\* the continue at the head of the loop over the lines
SkippedLineFromText(line) ==
    \/ Trim(line) = ""
    \/ Includes(line, "No.") \/ Includes(line, "PSR") \/ Includes(line, "Upstream")
    \/ Includes(line, "Circular") \/ Includes(line, "Total Length")
    \/ Includes(line, "Surveyed")

\* spacedMatch, on one line:
\* /^\s*(\d+)\s+(\d+)\s+([\d\-A-Z]+)\s+([\d\-A-Z]+)\s+(\d{1,2}\/\d{1,2}\/\d{4})\s+([A-Z]+)\s+([\d.]+)\s+([\d.]+)/
spacedMatch(line) ==
    LET b1 == Span(line, 1, Whitespace)
        e1 == Span(line, b1, Digits)
        b2 == Span(line, e1, Whitespace)
        e2 == Span(line, b2, Digits)
        b3 == Span(line, e2, Whitespace)
        e3 == Span(line, b3, Digits \cup {"-"} \cup UpperLetters)
        b4 == Span(line, e3, Whitespace)
        e4 == Span(line, b4, Digits \cup {"-"} \cup UpperLetters)
        b5 == Span(line, e4, Whitespace)
        e5 == DateAt(line, b5)
        b6 == Span(line, e5, Whitespace)
        e6 == Span(line, b6, UpperLetters)
        b7 == Span(line, e6, Whitespace)
        e7 == Span(line, b7, Digits \cup {"."})
        b8 == Span(line, e7, Whitespace)
        e8 == Span(line, b8, Digits \cup {"."})
    IN  IF /\ e1 > b1 /\ b2 > e1 /\ e2 > b2 /\ b3 > e2 /\ e3 > b3 /\ b4 > e3
           /\ e4 > b4 /\ b5 > e4 /\ e5 # 0 /\ b6 > e5 /\ e6 > b6 /\ b7 > e6
           /\ e7 > b7 /\ b8 > e7 /\ e8 > b8
        THEN <<[no |-> SubSeq(line, b1, e1 - 1), psr |-> SubSeq(line, b2, e2 - 1),
                upstreamMH |-> SubSeq(line, b3, e3 - 1),
                downstreamMH |-> SubSeq(line, b4, e4 - 1),
                date |-> SubSeq(line, b5, e5 - 1), material |-> SubSeq(line, b6, e6 - 1),
                totalLength |-> ParseFloat(SubSeq(line, b7, e7 - 1)),
                lengthSurveyed |-> ParseFloat(SubSeq(line, b8, e8 - 1))]>>
        ELSE NoMatch

\* the split of the digits before the first manhole ID: NoMatch is the continue
\* of the last else
SplitDigitsFromText(allDigits) ==
    LET n == Len(allDigits)
    IN  IF n = 4 THEN <<[no |-> SubSeq(allDigits, 1, 1), psr |-> From(allDigits, 2)]>>
        ELSE IF n = 5 THEN <<[no |-> SubSeq(allDigits, 1, 2), psr |-> From(allDigits, 3)]>>
        ELSE IF n = 6 THEN <<[no |-> SubSeq(allDigits, 1, 3), psr |-> From(allDigits, 4)]>>
        ELSE IF n >= 7 THEN <<[no |-> SubSeq(allDigits, 1, n - 4), psr |-> From(allDigits, n - 3)]>>
        ELSE NoMatch

\* the else branch of the loop for one line: the entry pushed, or NoMatch
AnchorEntryFromText(line) ==
    LET Entry(upstreamMH, downstreamMH, sp, rm) ==
            IF sp = NoMatch \/ rm = NoMatch THEN NoMatch
            ELSE <<[no |-> sp[1].no, psr |-> sp[1].psr,
                    upstreamMH |-> upstreamMH, downstreamMH |-> downstreamMH,
                    date |-> rm[1].date, material |-> rm[1].material,
                    totalLength |-> ParseFloat(rm[1].total),
                    lengthSurveyed |-> ParseFloat(rm[1].surveyed)]>>
        Split(upstreamMH, downstreamMH, beforeMH) ==
            IF beforeMH = "" \/ Span(beforeMH, 1, Digits) # Len(beforeMH) + 1
            THEN NoMatch
            ELSE Entry(upstreamMH, downstreamMH, SplitDigitsFromText(beforeMH),
                       RestMatch(From(line, IndexFrom(line, downstreamMH, 1)
                                            + Len(downstreamMH))))
        Anchors(upstreamMH, downstreamMH) ==
            Split(upstreamMH, downstreamMH,
                  Trim(SubSeq(line, 1, IndexFrom(line, upstreamMH, 1) - 1)))
        Manholes(m1, m2) ==
            IF m2[1] = 0 THEN NoMatch
            ELSE Anchors(SubSeq(line, m1[1], m1[2] - 1), SubSeq(line, m2[1], m2[2] - 1))
        Second(m1) ==
            Manholes(m1, IF m1[1] = 0 THEN <<0, 0>> ELSE NextManhole(line, m1[2]))
    IN  Second(NextManhole(line, 1))

\* the loop over the lines: the spaced pattern first, the anchors else
RECURSIVE EntriesFromText(_)
EntriesFromText(lines) ==
    IF lines = <<>> THEN <<>>
    ELSE LET line == Head(lines)
             e == IF SkippedLineFromText(line) THEN NoMatch
                  ELSE IF spacedMatch(line) # NoMatch THEN spacedMatch(line)
                  ELSE AnchorEntryFromText(line)
         IN  e \o EntriesFromText(Tail(lines))

extractSectionProfileFromText(t) ==
    IF sectionMatch(t) = NoMatch THEN <<>>
    ELSE EntriesFromText(SplitLines(sectionMatch(t)[1]))

(***************************************************************************)
(* check-position.js: parsePDFWithPositioning, the text of one page        *)
(***************************************************************************)
\* Coordinates are counted in thousandths of a layout unit.
\* const yThreshold = 0.5
yThreshold == 500

\* decodeURIComponent(T), for the escapes %20 and %2F
RECURSIVE decodeURIComponent(_)
decodeURIComponent(T) ==
    IF T = "" THEN ""
    ELSE IF StartsAt(T, 1, "%20") THEN " " \o decodeURIComponent(From(T, 4))
    ELSE IF StartsAt(T, 1, "%2F") THEN "/" \o decodeURIComponent(From(T, 4))
    ELSE At(T, 1) \o decodeURIComponent(From(T, 2))

\* page.Texts.map(item => ({ x, y, text })): the text of the first run, decoded
TextItem(item) ==
    [x |-> item.x, y |-> item.y,
     text |-> IF Len(item.R) > 0 THEN decodeURIComponent(item.R[1].T) ELSE ""]

\* .filter(item => item.text.trim().length > 0)
RECURSIVE FilterNonBlank(_)
FilterNonBlank(items) ==
    IF items = <<>> THEN <<>>
    ELSE (IF Len(Trim(Head(items).text)) > 0 THEN <<Head(items)>> ELSE <<>>)
         \o FilterNonBlank(Tail(items))

\* parseFloat(y.toFixed(2)): y rounded to hundredths
toFixed2(y) == ((y + 5) \div 10) * 10

\* Math.abs
Abs(n) == IF n < 0 THEN 0 - n ELSE n

\* one iteration of the loop over textItems: the item is pushed to the first
\* row, in the order the rows were made, whose key is less than yThreshold
\* away, else to a new row whose key is y.toFixed(2)
PlaceItem(rows, item) ==
    LET near == {k \in 1..Len(rows) : Abs(rows[k].key - item.y) < yThreshold}
    IN  IF near = {}
        THEN Append(rows, [key |-> toFixed2(item.y), items |-> <<item>>])
        ELSE [rows EXCEPT ![Min(near)].items = Append(@, item)]

\* the item is put after the items sorted so far
InsertAtEnd(sorted, item) == Append(sorted, item)

\* Array.prototype.sort((a, b) => a.x - b.x) is stable: the item goes after the
\* items whose x is not greater
InsertByX(sorted, item) ==
    LET n == Cardinality({i \in 1..Len(sorted) : sorted[i].x <= item.x})
    IN  SubSeq(sorted, 1, n) \o <<item>> \o SubSeq(sorted, n + 1, Len(sorted))

RECURSIVE SortByX(_)
SortByX(items) ==
    IF items = <<>> THEN <<>>
    ELSE InsertByX(SortByX(SubSeq(items, 1, Len(items) - 1)), items[Len(items)])

\* Object.keys(rows).sort((a, b) => parseFloat(a) - parseFloat(b))
RECURSIVE SortKeys(_)
SortKeys(keys) ==
    IF keys = {} THEN <<>> ELSE <<Min(keys)>> \o SortKeys(keys \ {Min(keys)})

\* ' '.repeat(n)
RECURSIVE Blanks(_)
Blanks(n) == IF n <= 0 THEN "" ELSE " " \o Blanks(n - 1)

\* the loop over rowItems from index i, lastX being the end of the item before
RECURSIVE RowText(_, _, _)
RowText(rowItems, i, lastX) ==
    IF i > Len(rowItems) THEN ""
    ELSE LET item == rowItems[i]
             xGap == item.x - lastX
             numSpaces == Max({1, xGap \div 2000})
         IN  (IF i > 1 /\ xGap > 1000 THEN Blanks(numSpaces) ELSE "")
             \o item.text
             \o RowText(rowItems, i + 1, item.x + Len(item.text) * 1000)

\* text items of a page: three of one line at heights that differ by less than
\* yThreshold, one just below the line, one at the top of the page, one at the
\* place of another, a blank one and one without a run
PageItems ==
    {[x |-> 0, y |-> 1000, R |-> <<[T |-> "No."]>>],
     [x |-> 4500, y |-> 1200, R |-> <<[T |-> "PSR"]>>],
     [x |-> 14000, y |-> 1496, R |-> <<[T |-> "11%2F20"]>>],
     [x |-> 3500, y |-> 1504, R |-> <<[T |-> "82"]>>],
     [x |-> 2000, y |-> 0, R |-> <<[T |-> "Page%201"]>>],
     [x |-> 0, y |-> 1000, R |-> <<[T |-> "Hi"]>>],
     [x |-> 1000, y |-> 1000, R |-> <<[T |-> "%20"]>>],
     [x |-> 1000, y |-> 5000, R |-> <<>>]}

MaxItems == 3

PageInit ==
    /\ ParseIdle
    /\ LabelIdle
    /\ ServerIdle
    /\ WindowIdle
    /\ page \in [Texts : SeqsUpTo(PageItems, MaxItems), textItems : {<<>>}, next : {1},
                 rows : {<<>>}, sortedRowKeys : {<<>>}, rawText : {""},
                 sectionProfile : {<<>>}, pc : {"page"}]

NotPage ==
    <<ParseVars, opri, condition, uploads, projects, savedData, parsedDataStore, window,
      response>>

\* const textItems = page.Texts.map(...).filter(...); const rows = {}
MapTexts ==
    /\ page.pc = "page"
    /\ page' = [page EXCEPT
                   !.textItems = FilterNonBlank([i \in DOMAIN page.Texts |->
                                                    TextItem(page.Texts[i])]),
                   !.pc = "group"]
    /\ UNCHANGED NotPage

\* for (const item of textItems) { ... rows[rowKey].push(item) }
GroupItem ==
    /\ page.pc = "group"
    /\ page.next <= Len(page.textItems)
    /\ page' = [page EXCEPT !.rows = PlaceItem(@, page.textItems[page.next]),
                            !.next = @ + 1]
    /\ UNCHANGED NotPage

\* the rows are sorted by key, the items of each row by x, in place, and the
\* text of each row is added to rawText with a line break
EmitRows ==
    /\ page.pc = "group"
    /\ page.next > Len(page.textItems)
    /\ LET keys == SortKeys({page.rows[k].key : k \in 1..Len(page.rows)})
           sorted == [k \in 1..Len(page.rows) |->
                         [page.rows[k] EXCEPT !.items = SortByX(@)]]
           Row(key) == sorted[CHOOSE k \in 1..Len(sorted) : sorted[k].key = key]
       IN  page' = [page EXCEPT
                       !.sortedRowKeys = keys,
                       !.rows = sorted,
                       !.rawText = @ \o Join([i \in DOMAIN keys |->
                                                 RowText(Row(keys[i]).items, 1, 0)],
                                             "", "\n"),
                       !.pc = "done"]
    /\ UNCHANGED NotPage

\* if (rawText.length === 0) throw new Error(...): the promise is rejected
NoTextExtracted ==
    /\ page.pc = "done"
    /\ page.rawText = ""
    /\ page' = [page EXCEPT !.pc = "rejected"]
    /\ UNCHANGED NotPage

\* const sectionProfile = extractSectionProfileFromText(rawText)
ExtractSectionProfileFromText ==
    /\ page.pc = "done"
    /\ page.rawText # ""
    /\ page' = [page EXCEPT !.sectionProfile = extractSectionProfileFromText(page.rawText),
                            !.pc = "extracted"]
    /\ UNCHANGED NotPage

PageNext ==
    \/ MapTexts
    \/ GroupItem
    \/ EmitRows
    \/ NoTextExtracted
    \/ ExtractSectionProfileFromText

PageSpec == PageInit /\ [][PageNext]_vars

\* the text of a PDF given to both parsers: parsePDF starts on it, and
\* parsePDFWithPositioning has built the same text as rawText
SplitInit ==
    /\ text \in RunDocs
    /\ pc = "pdf"
    /\ psrData = <<>>
    /\ inspectionReports = <<>>
    /\ result = <<>>
    /\ statistics = <<>>
    /\ returned = <<>>
    /\ LabelIdle
    /\ ServerIdle
    /\ WindowIdle
    /\ page = [Texts |-> <<>>, textItems |-> <<>>, next |-> 1, rows |-> <<>>,
               sortedRowKeys |-> <<>>, rawText |-> text, sectionProfile |-> <<>>,
               pc |-> "done"]

SplitNext == ParseNext \/ ExtractSectionProfileFromText

SplitSpec == SplitInit /\ [][SplitNext]_vars

(***************************************************************************)
(* Section Profile extraction: properties                                  *)
(***************************************************************************)
\* psrData holds what extractSectionProfileData returned
Extracted == pc \in {"profile", "reports", "crossref", "returned", "statistics"}

\* C1: the list extractSectionProfileData returns never holds two distinct
\* entries with the same PSR, upstream manhole and downstream manhole.
C1_NoDuplicateTriples ==
    Extracted =>
        \A i, j \in 1..Len(psrData) :
            i # j =>
                <<psrData[i].psr, psrData[i].upstreamMH, psrData[i].downstreamMH>>
                    # <<psrData[j].psr, psrData[j].upstreamMH, psrData[j].downstreamMH>>

\* two rows of the table had the same PSR and manholes, and one of them is gone
C1_DuplicateRowDropped ==
    /\ pc = "profile"
    /\ Len(psrData) < Len(ExtractedEntries(text))
    /\ \E i, j \in 1..Len(ExtractedEntries(text)) :
           /\ i < j
           /\ ExtractedEntries(text)[i].psr = ExtractedEntries(text)[j].psr
           /\ ExtractedEntries(text)[i].upstreamMH = ExtractedEntries(text)[j].upstreamMH
           /\ ExtractedEntries(text)[i].downstreamMH = ExtractedEntries(text)[j].downstreamMH

\* C2: the deduplication drops an entry exactly when an earlier extracted
\* entry has equal PSR, equal upstream manhole and equal downstream manhole, and
\* the entries retained keep their order: the list returned is the extracted
\* list without the entries that repeat the triple of an earlier one.
C2_DropsExactlyRepeatedTriples ==
    pc = "profile" =>
        LET all == ExtractedEntries(text)
            Repeats(i) ==
                \E j \in 1..(i - 1) :
                    /\ all[j].psr = all[i].psr
                    /\ all[j].upstreamMH = all[i].upstreamMH
                    /\ all[j].downstreamMH = all[i].downstreamMH
            kept == {i \in 1..Len(all) : ~Repeats(i)}
        IN  /\ Len(psrData) = Cardinality(kept)
            /\ \A k \in 1..Len(psrData) :
                   \E i \in kept :
                       /\ Cardinality({h \in kept : h < i}) = k - 1
                       /\ psrData[k] = all[i]

QsrLines == {"", "QSR\n1100\n"}

MprLines == {"", "MPR\n2.5\n"}

QorLines == {"", "QOR\n85\n", "QOR:\n85\n", "QOR :\n\n85\n"}

ConcatBlocks == {"", ConcatLabels \o "\n110031001.03.01.03.02.04.0\n"}

RatingDoc(qsr, mpr, qor, concat) == "Inspection report\n" \o qsr \o mpr \o qor \o concat

RatingDocs ==
    {RatingDoc(qsr, mpr, qor, concat) :
        qsr \in QsrLines, mpr \in MprLines, qor \in QorLines, concat \in ConcatBlocks}

\* Inspection-report blocks of every shape
ReportInit == ParseInit(ReportDocs \cup ConcatDocs \cup RatingDocs)

ReportSpec == ReportInit /\ [][ParseNext]_vars

(***************************************************************************)
(* Inspection-report extraction: properties                                *)
(***************************************************************************)
\* inspectionReports holds what extractInspectionReportData returned
ReportsExtracted == pc = "reports"

C7_ConcatenatedOrder ==
    /\ \A q \in QsrValues, m \in QmrValues, ts \in TokenLines :
           (ReportsExtracted /\ text = ConcatDoc(ValueLine(q, m, ts))) =>
               /\ Len(inspectionReports) = 1
               /\ inspectionReports[1].qsr = q.value
               /\ inspectionReports[1].qmr = m.value
               /\ inspectionReports[1].spr = ts[1].value
               /\ inspectionReports[1].mpr = ts[2].value
               /\ inspectionReports[1].spri = ts[3].value
               /\ inspectionReports[1].mpri = ts[4].value
               /\ inspectionReports[1].opri = ts[5].value
               /\ inspectionReports[1].opr = ts[6].value
    /\ (ReportsExtracted /\ text = ConcatDoc("110031001.03.01.03.02.04.0")) =>
           /\ Len(inspectionReports) = 1
           /\ [k \in {"qsr", "qmr", "spr", "mpr", "spri", "mpri", "opri", "opr"} |->
                  inspectionReports[1][k]]
              = [qsr |-> "1100", qmr |-> "3100", spr |-> "1", mpr |-> "3",
                 spri |-> "1", mpri |-> "3", opri |-> "2", opr |-> "4"]

\* the example value line has been read
C7_ExampleLineRead ==
    /\ ReportsExtracted
    /\ text = ConcatDoc("110031001.03.01.03.02.04.0")
    /\ Len(inspectionReports) = 1
    /\ inspectionReports[1].opri = "2"
    /\ inspectionReports[1].opr = "4"

\* a table and reports to cross-reference
XrefInit == ParseInit(XrefDocs \cup EndToEndDocs)

XrefSpec == XrefInit /\ [][ParseNext]_vars

(***************************************************************************)
(* parsePDF, cross-referencing and statistics: properties                  *)
(***************************************************************************)
\* C6: the cross-referencing pass gives every report that had no PSR, and for
\* which some Section Profile entry has the report's upstream manhole, its
\* downstream manhole and (when the report has a date) its date, the PSR of the
\* first such entry of the list.
C6_BackfillFromFirstMatch ==
    [][CrossReference =>
        \A i \in 1..Len(inspectionReports) :
            LET r == inspectionReports[i]
                ms == {k \in 1..Len(psrData) :
                          /\ "upstreamMH" \in DOMAIN r
                          /\ "downstreamMH" \in DOMAIN r
                          /\ psrData[k].upstreamMH = r.upstreamMH
                          /\ psrData[k].downstreamMH = r.downstreamMH
                          /\ ("date" \in DOMAIN r => psrData[k].date = r.date)}
            IN  ("psr" \notin DOMAIN r /\ ms # {}) =>
                    /\ "psr" \in DOMAIN inspectionReports'[i]
                    /\ inspectionReports'[i].psr = psrData[Min(ms)].psr]_vars

\* a report without PSR, dated as the second of two rows with its manholes, has
\* been given the PSR of that second row
C6_BackfilledByDate ==
    /\ pc = "crossref"
    /\ Len(psrData) = 2
    /\ psrData[1].upstreamMH = psrData[2].upstreamMH
    /\ psrData[1].downstreamMH = psrData[2].downstreamMH
    /\ psrData[1].psr # psrData[2].psr
    /\ \E i \in 1..Len(inspectionReports) :
           /\ "date" \in DOMAIN inspectionReports[i]
           /\ inspectionReports[i].date = psrData[2].date
           /\ inspectionReports[i].upstreamMH = psrData[2].upstreamMH
           /\ inspectionReports[i].downstreamMH = psrData[2].downstreamMH
           /\ inspectionReports[i].psr = psrData[2].psr
           /\ "psr" \notin DOMAIN extractInspectionReportData(text)[i]

\* C9: for a document with one spaced row (no, PSR, two manhole IDs, date,
\* material, two lengths) and one Inspection-report block with the row's
\* manholes and date, no PSR label and a labeled OPRI whose value is on the next
\* line, parsePDF and calculateStatistics give exactly one entry, exactly one
\* report, whose psr is the row's PSR, and one opriScores item whose condition
\* is the label of the OPRI value.
C9_EndToEnd ==
    \A row \in Rows, o \in OpriTexts :
        (pc = "statistics" /\ text = EndToEndDoc(row, o)) =>
            /\ Len(result.data.sectionProfile) = 1
            /\ Len(result.data.inspectionReports) = 1
            /\ "psr" \in DOMAIN result.data.inspectionReports[1]
            /\ result.data.inspectionReports[1].psr = row.psr
            /\ Len(statistics.opriScores) = 1
            /\ statistics.opriScores[1].condition
                   = (CASE o = "1.5" -> "Excellent" [] o = "2.0" -> "Good"
                        [] o = "4.6" -> "Very Poor")

\* C5: getConditionLabel gives every index v one label, with inclusive upper
\* bounds: "Excellent" for v <= 1.5, "Good" for 1.5 < v <= 2.5, "Fair" for
\* 2.5 < v <= 3.5, "Poor" for 3.5 < v <= 4.5, "Very Poor" for v > 4.5 (on the
\* tenths: v is a + b/10, compared as the integer 10a + b).
C5_InclusiveUpperBounds ==
    \A a \in 0..MaxOpriUnits, b \in 0..9 :
        (opri = ParseFloat(OpriText(a, b)) /\ condition # "") =>
            condition = (CASE 10 * a + b <= 15 -> "Excellent"
                           [] 15 < 10 * a + b /\ 10 * a + b <= 25 -> "Good"
                           [] 25 < 10 * a + b /\ 10 * a + b <= 35 -> "Fair"
                           [] 35 < 10 * a + b /\ 10 * a + b <= 45 -> "Poor"
                           [] 45 < 10 * a + b -> "Very Poor")

\* an index on a bound has its label
C5_BoundLabelled == opri = "2.5" /\ condition = "Good"

C10_NoPartialResult ==
    /\ \A r \in ParseResults :
           IF r.success
           THEN /\ DOMAIN r = {"success", "rawText", "data"}
                /\ DOMAIN r.data = {"sectionProfile", "inspectionReports", "metadata"}
           ELSE DOMAIN r = {"success", "error"}
    /\ \A u \in 1..Len(uploads) :
           (\/ uploads[u].failed = "parsing"
            \/ ("success" \in DOMAIN uploads[u].result /\ ~uploads[u].result.success)) =>
               /\ \A k \in 1..Len(projects) : projects[k].name # uploads[u].originalname
               /\ \A id \in DOMAIN parsedDataStore :
                      parsedDataStore[id].filename # uploads[u].originalname

\* the parse of one upload has failed, and another upload has its project and
\* its parsedDataStore entry
C10_FailedBesideStored ==
    \E u, v \in 1..Len(uploads) :
        /\ "success" \in DOMAIN uploads[u].result
        /\ ~uploads[u].result.success
        /\ uploads[u].status = 500
        /\ uploads[v].status = 200
        /\ \E id \in DOMAIN parsedDataStore :
               parsedDataStore[id].filename = uploads[v].originalname

\* C11: when no character was extracted from the PDF, parsePDF fails: the
\* result it returns for the empty text has success false, it is never a
\* successful result with empty record lists.
C11_EmptyTextFails ==
    (pc = "returned" /\ text = EmptyText) => ~result.success

(***************************************************************************)
(* parsePDFWithPython under the upload handler: properties                 *)
(***************************************************************************)
\* the process of request u has closed
Closed(u) == "json" \in DOMAIN uploads[u].stdout

\* the process of request u failed to start, exited with a code other than 0,
\* printed text that is not JSON or printed a result whose success is false
PythonFailed(u) ==
    \/ uploads[u].py = "errored"
    \/ /\ Closed(u)
       /\ \/ uploads[u].code # 0
          \/ ~uploads[u].stdout.json
          \/ ~uploads[u].stdout.value.success

TempFileWritten(u) ==
    \/ uploads[u].py \in {"spawned", "errored", "unlinking"}
    \/ uploads[u].py = "done" /\ Closed(u)

\* C13: once the temp file has been written, the promise of parsePDFWithPython
\* settles only after the unlink of the temp file has been issued, on every
\* path (parsed, non-zero exit code, unparsable output, process not started),
\* and no uploaded PDF is on disk once the request has been answered.
C13_UnlinkedBeforeSettled ==
    \A u \in 1..Len(uploads) :
        TempFileWritten(u) =>
            /\ uploads[u].promise \in {"resolved", "rejected"} => uploads[u].unlinks >= 1
            /\ uploads[u].pc = "responded" => ~uploads[u].onDisk

\* request u has stored its result
Stored(u) ==
    \/ uploads[u].pc = "unlinking"
    \/ uploads[u].pc = "responded" /\ uploads[u].status = 200

\* what each document gives when it is parsed alone: the result of parsePDF for
\* its text and the statistics of that result
AloneResults ==
    {[doc |-> r.rawText, result |-> r, statistics |-> calculateStatistics(r.data)] :
        r \in {q \in ParseResults : q.success}}

\* C14: requests interleaved at every await do not interfere: the result a
\* request holds is the result of parsing its own document, its statistics are
\* those of its own result, and once it has stored them parsedDataStore holds,
\* under its own project id, its own lists, statistics, text and file name,
\* whatever the other requests have done since; no two requests share an id.
C14_NoInterference ==
    \A u \in 1..Len(uploads) :
        /\ uploads[u].pc \in {"creating", "saving"} \/ Stored(u) =>
               [doc |-> uploads[u].doc, result |-> uploads[u].result,
                statistics |-> uploads[u].statistics] \in AloneResults
        /\ Stored(u) =>
               /\ uploads[u].project \in savedData
               /\ NatNumeral(uploads[u].project) \in DOMAIN parsedDataStore
               /\ LET stored == parsedDataStore[NatNumeral(uploads[u].project)]
                  IN  /\ stored.rawText = uploads[u].doc
                      /\ stored.sectionProfile = uploads[u].result.data.sectionProfile
                      /\ stored.inspectionReports = uploads[u].result.data.inspectionReports
                      /\ stored.statistics = uploads[u].statistics
                      /\ stored.filename = uploads[u].originalname
               /\ \A v \in 1..Len(uploads) :
                      (v # u /\ Stored(v)) => uploads[v].project # uploads[u].project

\* two requests for different documents, the second created and stored first,
\* have both been answered
C14_BothStoredOutOfOrder ==
    /\ Len(uploads) >= 2
    /\ uploads[1].pc = "responded" /\ uploads[1].status = 200
    /\ uploads[2].pc = "responded" /\ uploads[2].status = 200
    /\ uploads[1].doc # uploads[2].doc
    /\ uploads[2].project < uploads[1].project

C16_SpacedLineYieldsEntry ==
    (pc = "profile" /\ fullSectionMatch(text) # NoMatch) =>
        \A p \in 1..Len(fullSectionMatch(text)[1]) :
            SpacedMatchAt(fullSectionMatch(text)[1], p) # NoMatch =>
                \E i \in 1..Len(psrData) :
                    /\ psrData[i].psr
                           = SpacedMatchAt(fullSectionMatch(text)[1], p)[1].psr
                    /\ psrData[i].upstreamMH
                           = SpacedMatchAt(fullSectionMatch(text)[1], p)[1].upstreamMH
                    /\ psrData[i].downstreamMH
                           = SpacedMatchAt(fullSectionMatch(text)[1], p)[1].downstreamMH

(***************************************************************************)
(* The ratings window: properties                                          *)
(***************************************************************************)
\* C17: the ratings window of a report that has a following body is its own
\* body followed by a prefix of the next body of at most 2000 characters, and
\* of fewer when a "Section Pictures" marker or a page marker starts within the
\* first 2000 characters of the next body; the window of the last report is its
\* own body.
C17_WindowWithinLookahead ==
    window.built =>
        LET n == Len(window.ratingsSection) - Len(window.section) - 1
            sp == IndexFrom(ToLower(window.nextSection), "section pictures", 1) - 1
            pm == IndexFrom(ToLower(window.nextSection), "// page:", 1) - 1
        IN  IF ~window.hasNext THEN window.ratingsSection = window.section
            ELSE /\ window.ratingsSection
                        = window.section \o "\n" \o SubSeq(window.nextSection, 1, n)
                 /\ n <= DefaultLookahead
                 /\ ((sp # -1 /\ sp < DefaultLookahead) \/ (pm # -1 /\ pm < DefaultLookahead))
                        => n < DefaultLookahead

\* C17 as amended: the prefix of the next body ends where a "Section Pictures"
\* marker starts, if one starts within the first 2000 characters; else 50
\* characters after the start of a page marker that starts within the first
\* 2000 characters; else after 2000 characters; always at the end of the next
\* body if that comes first.  It is shorter than 2050 characters.  The window of
\* the last report is its own body.
C17_WindowEndsAtMarkerOrSlack ==
    window.built =>
        LET n == Len(window.ratingsSection) - Len(window.section) - 1
            len == Len(window.nextSection)
            sp == IndexFrom(ToLower(window.nextSection), "section pictures", 1) - 1
            pm == IndexFrom(ToLower(window.nextSection), "// page:", 1) - 1
        IN  IF ~window.hasNext THEN window.ratingsSection = window.section
            ELSE /\ window.ratingsSection
                        = window.section \o "\n" \o SubSeq(window.nextSection, 1, n)
                 /\ n < DefaultLookahead + PageMarkerSlack
                 /\ (sp # -1 /\ sp < DefaultLookahead) => n = sp
                 /\ (~(sp # -1 /\ sp < DefaultLookahead) /\ pm # -1 /\ pm < DefaultLookahead)
                        => n = Min({pm + PageMarkerSlack, len})
                 /\ (~(sp # -1 /\ sp < DefaultLookahead) /\ ~(pm # -1 /\ pm < DefaultLookahead))
                        => n = Min({DefaultLookahead, len})

\* a page marker that starts at the last of the first 2000 characters has put
\* 2049 characters of the next body into the window
C17_PageMarkerAtLimit ==
    /\ window.built
    /\ window.hasNext
    /\ IndexFrom(ToLower(window.nextSection), "// page:", 1) = DefaultLookahead
    /\ Len(window.ratingsSection)
           = Len(window.section) + 1 + DefaultLookahead + PageMarkerSlack - 1

(***************************************************************************)
(* The two ratings layouts: properties                                     *)
(***************************************************************************)
\* the class of the value of a rating label
RatingClass(label) == IF label \in {"qsr", "qmr", "qor"} THEN Digits ELSE DigitsOrDot

\* the number a labeled value denotes
RatingValue(label, v) == IF label \in {"qsr", "qmr", "qor"} THEN ParseInt(v) ELSE ParseFloat(v)

\* C18: whenever any of the nine labeled patterns (label, newline, value)
\* matches in the ratings window, the concatenated value line is not used:
\* every rating the report holds is the value of its own labeled pattern.
C18_LabeledExcludesConcatenated ==
    (ReportsExtracted /\ text \in RatingDocs) =>
        LET lt == ToLower(text)
            labels == {"qsr", "qmr", "qor", "spr", "mpr", "opr", "spri", "mpri", "opri"}
        IN  (\E l \in labels : LabeledRating(lt, l, RatingClass(l)) # NoMatch) =>
                \A r \in 1..Len(inspectionReports) :
                    \A l \in (labels \ {"qor"}) \cap DOMAIN inspectionReports[r] :
                        /\ LabeledRating(lt, l, RatingClass(l)) # NoMatch
                        /\ inspectionReports[r][l]
                               = RatingValue(l, LabeledRating(lt, l, RatingClass(l))[1])

\* C19: whenever the label QOR, with or without blanks and a colon after it,
\* is followed by line breaks and digits in the ratings window, the report has
\* that number as its qor, whichever layout gave the other ratings.
C19_QorIndependentOfLayout ==
    (ReportsExtracted /\ text \in RatingDocs) =>
        (LabeledRating(ToLower(text), "qor", Digits) # NoMatch =>
            /\ Len(inspectionReports) = 1
            /\ "qor" \in DOMAIN inspectionReports[1]
            /\ inspectionReports[1].qor
                   = ParseInt(LabeledRating(ToLower(text), "qor", Digits)[1]))

\* C20: every body that follows an "Inspection report" boundary and in which
\* at least one field pattern matches is emitted as a report, with or without
\* PSR: there are at least as many reports as such bodies, and never more
\* reports than boundaries.
C20_MatchingBodiesEmitted ==
    ReportsExtracted =>
        LET sections == SplitReports(text, ToLower(text))
            Scalar(s) ==
                \/ dateMatch(s) # NoMatch
                \/ psrMatch(s) # NoMatch
                \/ LabelRun(s, "Certificate Number:", WordOrDash) # NoMatch
                \/ LabelLine(s, "Surveyed By:") # NoMatch
                \/ LazyField(s, "Pre-cleaning:", {"\n"}, FALSE, {"Direction:"}) # NoMatch
                \/ LazyField(s, "Direction:", {"\n"}, FALSE, {"Pipe Joint Length:"}) # NoMatch
                \/ LabelRun(s, "Upstream MH:", WordOrDash) # NoMatch
                \/ LabelRun(s, "Downstream MH:", WordOrDash) # NoMatch
                \/ LabelRun(s, "Pipe shape:", WordChars) # NoMatch
                \/ LazyField(s, "Pipe size:", Digits \cup Whitespace \cup {"\""}, TRUE,
                             {"Sewer Category:", "Purpose:"}) # NoMatch
                \/ LazyField(s, "Pipe material:", {"\n"}, FALSE,
                             {"Purpose:", "Lining Method:"}) # NoMatch
                \/ LazyField(s, "Sewer Use:", {"\n"}, FALSE, {"Total gallons"}) # NoMatch
                \/ LabelRun(s, "Sewer Category:", WordChars) # NoMatch
                \/ LabelRun(s, "Joints passed:", Digits) # NoMatch
                \/ LabelRun(s, "Joints failed:", Digits) # NoMatch
                \/ LabelRun(s, "Total gallons used:", DigitsOrDot) # NoMatch
                \/ QuotedLength(s, "Total Length:") # NoMatch
                \/ QuotedLength(s, "Length Surveyed:") # NoMatch
                \/ LabelLine(s, "Street:") # NoMatch
                \/ LabelLine(s, "City:") # NoMatch
                \/ Observations(s, 1) # <<>>
            Rating(s) ==
                \E l \in {"qsr", "qmr", "qor", "spr", "mpr", "opr", "spri", "mpri", "opri"} :
                    LabeledRating(ToLower(s), l, RatingClass(l)) # NoMatch
            matching == {k \in 2..Len(sections) : Scalar(sections[k]) \/ Rating(sections[k])}
        IN  /\ Len(inspectionReports) <= Len(sections) - 1
            /\ Cardinality(matching) <= Len(inspectionReports)

(***************************************************************************)
(* Section Profile extraction of malformed input: properties               *)
(***************************************************************************)
\* the line matches the spaced pattern or is recovered from its anchors
LineMatches(line) ==
    \/ SpacedMatchAt(line, 1) # NoMatch
    \/ ~SkippedLine(line) /\ AnchorEntry(line) # NoMatch

\* the text without the lines after the first that match neither pattern
WithoutUnmatched(t) ==
    Head(SplitLines(t)) \o "\n" \o Join(SelectSeq(Tail(SplitLines(t)), LineMatches), "", "\n")

\* C21: extractSectionProfileData returns the empty list for a text without
\* a "Section Profile" heading, and a line that matches neither the spaced
\* pattern nor the anchor-based reconstruction contributes no entry and keeps
\* no other line from being extracted: the list returned is the list of the
\* text without such lines.
C21_UnmatchedLinesSkipped ==
    pc = "profile" =>
        /\ fullSectionMatch(text) = NoMatch => psrData = <<>>
        /\ psrData = extractSectionProfileData(WithoutUnmatched(text))

(***************************************************************************)
(* calculateStatistics: properties                                         *)
(***************************************************************************)
\* C22: for a non-empty Section Profile list with total lengths of zero or
\* more, longestSegment is the first entry of the list whose totalLength is the
\* maximum, and shortestSegment the first entry whose totalLength is the
\* minimum.
C22_FirstLongestFirstShortest ==
    (pc = "statistics" /\ Len(result.data.sectionProfile) > 0) =>
        LET list == result.data.sectionProfile
            longest == {i \in 1..Len(list) :
                           \A j \in 1..Len(list) : NumLeq(list[j].totalLength, list[i].totalLength)}
            shortest == {i \in 1..Len(list) :
                            \A j \in 1..Len(list) : NumLeq(list[i].totalLength, list[j].totalLength)}
        IN  /\ statistics.longestSegment = <<list[Min(longest)]>>
            /\ statistics.shortestSegment = <<list[Min(shortest)]>>

(***************************************************************************)
(* The cross-referencing pass: material and frame                          *)
(***************************************************************************)
\* C23: when the cross-referencing pass has run, every report that has a PSR
\* and had no pipe material before the pass, and whose PSR is the PSR of some
\* Section Profile entry, has the material of an entry with that PSR.
C23_MaterialBackfilled ==
    [][(pc = "reports" /\ pc' = "crossref") =>
          /\ Len(inspectionReports') = Len(inspectionReports)
          /\ \A i \in 1..Len(inspectionReports) :
                 (/\ Truthy(inspectionReports'[i], "psr")
                  /\ ~Truthy(inspectionReports[i], "pipeMaterial")
                  /\ \E k \in 1..Len(psrData) : psrData[k].psr = inspectionReports'[i].psr)
                 => /\ Truthy(inspectionReports'[i], "pipeMaterial")
                    /\ \E k \in 1..Len(psrData) :
                           /\ psrData[k].psr = inspectionReports'[i].psr
                           /\ psrData[k].material = inspectionReports'[i].pipeMaterial]_vars

\* a report without PSR label and without material label has got the PSR of a
\* row and the row's material
C23_BackfilledPsrGotMaterial ==
    /\ pc = "crossref"
    /\ ~Includes(text, "PSR:")
    /\ ~Includes(text, "Pipe material:")
    /\ \E i \in 1..Len(inspectionReports) :
           /\ Truthy(inspectionReports[i], "psr")
           /\ Truthy(inspectionReports[i], "pipeMaterial")
           /\ \E k \in 1..Len(psrData) :
                  /\ psrData[k].psr = inspectionReports[i].psr
                  /\ psrData[k].material = inspectionReports[i].pipeMaterial

\* what the pass may do to one report, given the keys whose values it must keep:
\* it drops no field and adds none but psr and pipeMaterial, keeps the values
\* of the keys in kept, fills in only values of Section Profile entries, and
\* leaves a report with no entry for its manholes without psr and one with no
\* entry for its PSR without pipeMaterial
PassFrame(before, after, entries, kept) ==
    LET filled == {"psr", "pipeMaterial"}
    IN  /\ DOMAIN before \subseteq DOMAIN after
        /\ DOMAIN after \subseteq DOMAIN before \cup filled
        /\ \A k \in kept : after[k] = before[k]
        /\ \A k \in filled :
               (k \in DOMAIN after /\ (k \in DOMAIN before => after[k] # before[k])) =>
                   \E e \in 1..Len(entries) :
                       after[k] = IF k = "psr" THEN entries[e].psr ELSE entries[e].material
        /\ ("psr" \notin DOMAIN before
               /\ ~\E e \in 1..Len(entries) :
                      /\ Truthy(before, "upstreamMH")
                      /\ Truthy(before, "downstreamMH")
                      /\ entries[e].upstreamMH = before.upstreamMH
                      /\ entries[e].downstreamMH = before.downstreamMH)
               => "psr" \notin DOMAIN after
        /\ ("pipeMaterial" \notin DOMAIN before
               /\ ~\E e \in 1..Len(entries) :
                      "psr" \in DOMAIN after /\ entries[e].psr = after.psr)
               => "pipeMaterial" \notin DOMAIN after

\* C24: the cross-referencing pass changes nothing but a psr and a
\* pipeMaterial that a report lacked: the Section Profile list and the number
\* and order of the reports stay, every field that extraction set stays as it
\* is, psr and pipeMaterial included, a value filled in is the value of a
\* Section Profile entry, and a report with no entry for its manholes, or none
\* for its PSR, is left without psr, or without pipeMaterial.
C24_NeverOverwritesSet ==
    [][(pc = "reports" /\ pc' = "crossref") =>
          /\ psrData' = psrData
          /\ Len(inspectionReports') = Len(inspectionReports)
          /\ \A i \in 1..Len(inspectionReports) :
                 PassFrame(inspectionReports[i], inspectionReports'[i], psrData,
                           DOMAIN inspectionReports[i])]_vars

\* C24, amended: as above, but a pipeMaterial that extraction set to the empty
\* text (the field was blank) counts as lacking and may be filled in.
C24_OnlyFillsAbsent ==
    [][(pc = "reports" /\ pc' = "crossref") =>
          /\ psrData' = psrData
          /\ Len(inspectionReports') = Len(inspectionReports)
          /\ \A i \in 1..Len(inspectionReports) :
                 PassFrame(inspectionReports[i], inspectionReports'[i], psrData,
                           {k \in DOMAIN inspectionReports[i] :
                                k \in {"psr", "pipeMaterial"}
                                    => Truthy(inspectionReports[i], k)})]_vars

\* after the pass one report keeps the material of its own, which is not the
\* material of the row with its PSR, and the report whose material field was
\* blank has the material of that row
C24_OwnMaterialKeptBlankFilled ==
    /\ pc = "crossref"
    /\ Len(inspectionReports) = 2
    /\ Includes(text, BodyOwnMaterial \o "Inspection report" \o BodyBlankMaterial)
    /\ inspectionReports[1].pipeMaterial = "Clay"
    /\ \E e \in 1..Len(psrData) :
           /\ psrData[e].psr = inspectionReports[1].psr
           /\ psrData[e].psr = inspectionReports[2].psr
           /\ psrData[e].material # "Clay"
           /\ psrData[e].material = inspectionReports[2].pipeMaterial

(***************************************************************************)
(* The PSR of a report: properties                                         *)
(***************************************************************************)
\* C25: the PSR of a report is the one of the label variant of highest
\* priority among the variants in its own body (Pipe Segment Ref., PSR, Ref.,
\* Segment Reference, in this order), wherever in the body the labels stand; a
\* report without any label has no PSR, also when the report that follows has
\* one.
C25_HighestPriorityLabel ==
    pc = "reports" =>
        \A c \in PriorityCases :
            text = c.text =>
                /\ Len(inspectionReports) >= 1
                /\ IF c.labels = <<>>
                   THEN "psr" \notin DOMAIN inspectionReports[1]
                   ELSE /\ "psr" \in DOMAIN inspectionReports[1]
                        /\ inspectionReports[1].psr
                               = PsrVariants[Min({c.labels[i] : i \in DOMAIN c.labels})].psr

\* the body has the label PSR before the label Pipe Segment Ref., and the
\* report has the PSR of the latter
C25_LaterLabelOfHigherPriority ==
    /\ pc = "reports"
    /\ \E c \in PriorityCases : text = c.text /\ c.labels = <<2, 1>>
    /\ inspectionReports[1].psr = "111"

\* C26: a report whose body has one PSR label, any of the four variants in
\* any letter case, followed by digits, has these digits as its psr.
C26_LabelsInAnyCase ==
    pc = "reports" =>
        \A c \in SpellingCases :
            text = c.text =>
                /\ Len(inspectionReports) = 1
                /\ "psr" \in DOMAIN inspectionReports[1]
                /\ inspectionReports[1].psr = PsrVariants[c.labels[1]].psr

(***************************************************************************)
(* The position-aware normalizer: properties                               *)
(***************************************************************************)
\* the text of a row by the rule of the claim: the texts of the items in their
\* order, with max(1, floor(gap / 2)) blanks before an item whose gap to the
\* end of the item before it is more than 1 unit
RECURSIVE SpacedTexts(_)
SpacedTexts(items) ==
    IF Len(items) <= 1 THEN (IF items = <<>> THEN "" ELSE items[1].text)
    ELSE LET n == Len(items)
             gap == items[n].x - (items[n - 1].x + Len(items[n - 1].text) * 1000)
             halves == CHOOSE h \in 0..gap : 2000 * h <= gap /\ gap < 2000 * (h + 1)
         IN  SpacedTexts(SubSeq(items, 1, n - 1))
             \o (IF gap > 1000 THEN Blanks(IF halves > 1 THEN halves ELSE 1) ELSE "")
             \o items[n].text

\* C27: when a page has been normalized, every text item that is not blank is
\* in exactly one row (as often as the page has it) and the rows hold nothing
\* else; every item of a row has a vertical coordinate within 0.5 units of the
\* key of the row; the rows are emitted by increasing key, the items of a row
\* by increasing horizontal coordinate, and the text of a row has
\* max(1, floor(gap / 2)) blanks between items whose gap is more than 1 unit.
C27_RowsByPosition ==
    (page # <<>> /\ page.pc = "done") =>
        LET items == {TextItem(page.Texts[i]) : i \in DOMAIN page.Texts}
            places == {<<r, j>> \in (DOMAIN page.rows) \X (1..MaxItems + 1) :
                          j <= Len(page.rows[r].items)}
            keys == page.sortedRowKeys
            RowOf(key) == page.rows[CHOOSE r \in DOMAIN page.rows : page.rows[r].key = key]
        IN  /\ \A v \in items :
                   Cardinality({p \in places : page.rows[p[1]].items[p[2]] = v})
                       = IF Trim(v.text) = "" THEN 0
                         ELSE Cardinality({i \in DOMAIN page.Texts :
                                              TextItem(page.Texts[i]) = v})
            /\ \A p \in places : page.rows[p[1]].items[p[2]] \in items
            /\ \A p \in places :
                   Abs(page.rows[p[1]].items[p[2]].y - page.rows[p[1]].key) <= 500
            /\ Len(keys) = Len(page.rows)
            /\ {keys[i] : i \in DOMAIN keys} = {page.rows[r].key : r \in DOMAIN page.rows}
            /\ \A i \in 1..(Len(keys) - 1) : keys[i] < keys[i + 1]
            /\ \A r \in DOMAIN page.rows :
                   \A j \in 1..(Len(page.rows[r].items) - 1) :
                       page.rows[r].items[j].x <= page.rows[r].items[j + 1].x
            /\ page.rawText
                   = Join([i \in DOMAIN keys |-> SpacedTexts(RowOf(keys[i]).items)], "", "\n")

\* a page whose items came lowest line first: two rows are emitted top first,
\* and the items of the lower row, which came right to left, are emitted left
\* to right with blanks between them
C27_TwoRowsReordered ==
    /\ page # <<>>
    /\ page.pc = "done"
    /\ Len(page.Texts) = 3
    /\ page.Texts[1].y > page.Texts[3].y
    /\ page.Texts[1].x > page.Texts[2].x
    /\ page.rawText = "Page 1\nNo. PSR\n"

(***************************************************************************)
(* The entries of the Section Profile list: properties                     *)
(***************************************************************************)
\* C28: every entry that extractSectionProfileData returns has the eight
\* fields: a PSR, a sequence number, two manhole IDs, a date and a material
\* that are not empty, and two lengths that are numbers; a collapsed row whose
\* leading run has 3 digits or fewer gives no entry.
C28_EntriesComplete ==
    Extracted =>
        /\ \A i \in 1..Len(psrData) :
               /\ DOMAIN psrData[i]
                      = {"no", "psr", "upstreamMH", "downstreamMH", "date", "material",
                         "totalLength", "lengthSurveyed"}
               /\ \A k \in {"no", "psr", "upstreamMH", "downstreamMH", "date", "material"} :
                      psrData[i][k] # ""
               /\ psrData[i].totalLength # "NaN"
               /\ psrData[i].lengthSurveyed # "NaN"
        /\ \A d \in DigitRuns : (text = RunDoc(d) /\ Len(d) <= 3) => psrData = <<>>

(***************************************************************************)
(* The two Section Profile extractors: properties                          *)
(***************************************************************************)
\* C29: for a collapsed row with a leading digit run of any length,
\* extractSectionProfileData and extractSectionProfileFromText return the same
\* sequence number and PSR, or both return no entry.
C29_SplitsAgree ==
    (pc = "profile" /\ page # <<>> /\ page.pc = "extracted") =>
        [i \in DOMAIN psrData |-> <<psrData[i].no, psrData[i].psr>>]
            = [i \in DOMAIN page.sectionProfile |->
                  <<page.sectionProfile[i].no, page.sectionProfile[i].psr>>]

(***************************************************************************)
(* The GET routes: properties                                              *)
(***************************************************************************)
\* C30: a response that carries parsed data of an upload (record lists, raw
\* text, an export, search results) answers a request with a session userId,
\* and the data of a project goes to the user who owns the project.
C30_ParsedDataOnlyWithSession ==
    (response # <<>> /\ response.status = 200) =>
        /\ response.userId # 0
        /\ response.route = "project" =>
               \E k \in 1..Len(projects) :
                   /\ projects[k].id = response.body[1].projectId
                   /\ projects[k].userId = response.userId

====
